---- MODULE Spec2Model ----
(***************************************************************************)
(* A model of visidata's command log replay engine (cmdlog.py) and of the  *)
(* sheet viewport (_sheet.py).                                             *)
(*                                                                         *)
(* Spec       : the replay engine.  One replay thread per replayed log     *)
(*              plus the interface thread issuing pause / advance /        *)
(*              cancel / replay-all.                                       *)
(* FairSpec   : Spec with weak fairness on every replay thread.            *)
(* SpecCols   : the horizontal viewport of a sheet: go-left, go-right,     *)
(*              go-leftmost, calcColLayout, checkCursor.                   *)
(* SpecRows   : the vertical viewport of a sheet: go-up, go-down, paging,  *)
(*              go-bottom, checkCursor.                                    *)
(* SpecTrip   : a live session of logged commands and the replay of its    *)
(*              log on a copy of the original input.                       *)
(***************************************************************************)
EXTENDS Integers, Sequences, FiniteSets, TLC

None == "None"
NoRow == <<None, 0>>   \* currentReplayRow when it is None

Min(a, b) == IF a <= b THEN a ELSE b
Max(a, b) == IF a >= b THEN a ELSE b

(***************************************************************************)
(* Bounds of the model.                                                    *)
(***************************************************************************)
NFile == 2       \* entries of the loaded .vd log
MaxLog == 3      \* a log is not grown beyond this many rows
MaxSem == 1      \* the interface stops signalling at this many pending tokens
MaxReplays == 2  \* replay-all is invoked at most this many times
MaxCmds == 2     \* the live session runs at most this many logged commands
NFields == 2     \* columns of the sheet of the live session
NRecords == 2    \* rows of the sheet of the live session
NCols == 3       \* columns of the sheet
MaxWidth == 1    \* a column's width is 1..MaxWidth when it is set
MaxContent == 1  \* Column.getMaxWidth answers 0..MaxContent
DefaultWidth == 3 \* the value of options.default_width
MaxWin == 3      \* windowWidth is 1..MaxWin
MaxRows == 2     \* the sheet has 0..MaxRows rows
MaxHeight == 4   \* windowHeight is 2..MaxHeight
Slack == 1       \* commands move a cursor at most this far out of range

(***************************************************************************)
(* Replay engine state.                                                    *)
(*   Logs: the CommandLog sheets that can be replayed.                     *)
(*     "file"   a log loaded from a .vd file (open_vd); its rows are its   *)
(*              own list.                                                  *)
(*     "global" vd.cmdlog, to which afterExecSheet appends every logged    *)
(*              command.                                                   *)
(*     "sheet"  sheet.cmdlog of the data sheet the entries act on; its     *)
(*              rows ARE sheet.cmdlog_sheet.rows (the same list object),   *)
(*              to which afterExecSheet appends as well.                   *)
(***************************************************************************)
Logs == {"file", "global", "sheet"}

VARIABLES
  rows,              \* rows[L]: the rows of log L, each row its longname
  logCursorRowIndex, \* logCursorRowIndex[L]: L.cursorRowIndex, the replay position
  currentReplay,     \* CommandLog.currentReplay: None or a log
  currentReplayRow,  \* CommandLog.currentReplayRow: NoRow or <<log, index>>
  paused,            \* CommandLog.paused
  semaphore,         \* CommandLog.semaphore: its count
  pc,                \* pc[L]: where the thread replaying L stands in replay_sync
  uiPc,              \* where the interface thread stands inside togglePause
  \* history variables, read by the properties only
  cancelled,         \* cancelled[L]: cancel() was called by the interface while L was current
  admitted,          \* admitted[L]: L's thread passed the loop's cancellation test after that
  failed,            \* failed[L]: an entry of L raised or escaped during replay
  pauseSeen,         \* the replay thread has entered delay() with paused set, in this pause
  credit,            \* advance signals issued since paused was set, less the entries
                     \* begun since pauseSeen (kept at -1 once it is negative)
  executed           \* executed[L]: the entries of L that replayOne was called
                     \* for, as their indices in rows, in the order of the calls;
                     \* the last one is the r of a replayOne(r) under way

VARIABLES
  sheet,             \* the data Sheet whose viewport is modelled (see below)
  lastOp,            \* the handler that ran last, "" at first
  pre                \* <<cursorRowIndex, cursorVisibleColIndex>> as checkCursor
                     \* found them, when checkCursor ran last (history)

viewVars == <<sheet, lastOp, pre>>

replayVars == <<rows, logCursorRowIndex, currentReplay, currentReplayRow, paused,
                semaphore, pc, uiPc>>
histVars == <<cancelled, admitted, failed, pauseSeen, credit, executed>>
VARIABLES
  live,              \* the sheet of the live session
  replica,           \* a copy of the original input, which the log is replayed on
  tableLog,          \* the entries logged for the live session's commands
  tablePc,           \* "live", "replay", "done" or "error"
  tablePos           \* the index in tableLog of the entry the replay runs next

tableVars == <<live, replica, tableLog, tablePc, tablePos>>

VARIABLES
  marked,            \* marked[i]: the row the cursor was on when tableLog[i] was
                     \* logged (history)
  landed             \* the entry whose row moveToRow was last asked to find, or 0

keyVars == <<marked, landed>>

VARIABLES
  recorder,          \* vd.activeCommand, the rows of vd.cmdlog and the rows of
                     \* every sheet's cmdlog_sheet
  running,           \* the executions of exec_command in progress, innermost last
  escapedExecs,      \* the executions that ended escaped (history)
  nExec              \* the number of executions started (history)

recVars == <<recorder, running, escapedExecs, nExec>>

VARIABLES
  ret                \* the sheet that copy(sheet) returned last

copyVars == <<ret>>

VARIABLES
  colorizers,        \* the colorizers getColorizers comes across, in the order
                     \* of [self] + allParents(self.__class__) and of each list
  cache,             \* the lru_cache of getColorizers
  colorized          \* what the last call of colorize did

colorVars == <<colorizers, cache, colorized>>

VARIABLES
  memo,              \* the lru_cache of keyCols, visibleCols and nHeaderRows
  read               \* the property read last and what the read returned

memoVars == <<memo, read>>

\* what the actions of one part of the model leave alone
notReplay ==
  <<viewVars, tableVars, keyVars, recVars, copyVars, colorVars, memoVars>>
notView ==
  <<replayVars, histVars, tableVars, keyVars, recVars, copyVars, colorVars, memoVars>>
notTable ==
  <<replayVars, histVars, viewVars, keyVars, recVars, copyVars, colorVars, memoVars>>
notKey ==
  <<replayVars, histVars, viewVars, recVars, copyVars, colorVars, memoVars>>
notRec ==
  <<replayVars, histVars, viewVars, tableVars, keyVars, copyVars, colorVars, memoVars>>
notDesign == <<replayVars, histVars, tableVars, keyVars, recVars, colorVars, memoVars>>
notMemo == <<replayVars, histVars, tableVars, keyVars, recVars, copyVars>>
notColor ==
  <<replayVars, histVars, viewVars, tableVars, keyVars, recVars, copyVars, memoVars>>

vars ==
  <<replayVars, histVars, viewVars, tableVars, keyVars, recVars, copyVars, colorVars,
    memoVars>>

(***************************************************************************)
(* Init: the state after construction.  The global log and the sheet's own *)
(* log hold the one command recorded so far; the .vd log holds NFile       *)
(* entries, commands and set-option entries in turn.                       *)
(***************************************************************************)
FileRows == [i \in 1..NFile |-> IF i % 2 = 1 THEN "cmd" ELSE "set-option"]

InitReplay ==
  /\ rows = [L \in Logs |-> IF L = "file" THEN FileRows ELSE <<"cmd">>]
  /\ logCursorRowIndex = [L \in Logs |-> 0]
  /\ currentReplay = None
  /\ currentReplayRow = NoRow
  /\ paused = FALSE
  /\ semaphore = 0
  /\ pc = [L \in Logs |-> "idle"]
  /\ uiPc = "idle"
  /\ cancelled = [L \in Logs |-> FALSE]
  /\ admitted = [L \in Logs |-> FALSE]
  /\ failed = [L \in Logs |-> FALSE]
  /\ pauseSeen = FALSE
  /\ credit = 0
  /\ executed = [L \in Logs |-> <<>>]

\* A sheet as constructed: viewport at the origin, nothing laid out yet.
NoWidth == -1
NoRaise == ""
NewSheet(columns, nRows, windowWidth, windowHeight, default_width) ==
  [ columns |-> columns, nRows |-> nRows,
    windowWidth |-> windowWidth, windowHeight |-> windowHeight,
    default_width |-> default_width,
    cursorRowIndex |-> 0, cursorVisibleColIndex |-> 0,
    topRowIndex |-> 0, leftVisibleColIndex |-> 0, rightVisibleColIndex |-> 0,
    rowLayoutLen |-> 0, visibleColLayout |-> <<>>, raised |-> NoRaise ]

NoPre == <<0, 0>>
Column(name, width, keycol, hidden) ==
  [name |-> name, width |-> width, keycol |-> keycol, hidden |-> hidden]

\* A sheet with data: its columns, the cells of its rows, and its cursor.
Table(columns, cells) ==
  [ columns |-> columns, cells |-> cells,
    cursorRowIndex |-> 0, cursorVisibleColIndex |-> 0 ]

\* the sheet of the replay specification: one column, Column('')
InitSheet ==
  /\ sheet = NewSheet(<<Column("", NoWidth, FALSE, FALSE)>>, 0, 1, 2, DefaultWidth)
  /\ lastOp = ""
  /\ pre = NoPre

\* no session recorded, nothing replayed against the copy
InitTable ==
  /\ live = Table(<<Column("", NoWidth, FALSE, FALSE)>>, <<>>)
  /\ replica = live
  /\ tableLog = <<>>
  /\ tablePc = "live"
  /\ tablePos = 0
  /\ marked = <<>>
  /\ landed = 0

\* the sheets commands act on: two data sheets and vd.cmdlog itself
RecSheets == {"data", "other", "cmdlog"}
NoCommand ==
  [sheet |-> "", longname |-> <<>>, comment |-> <<>>, undofuncs |-> <<>>, exec |-> 0]

\* no sheet copied yet
NoCopy == NewSheet(<<>>, 0, 0, 0, 0)

\* getColorizers not called yet, nothing colorized yet
NoCache == [hit |-> FALSE, value |-> <<>>]
NotColorized == [done |-> FALSE, colorstack |-> <<>>, reported |-> 0]

\* nothing memoized, nothing read
Miss == [hit |-> FALSE, value |-> 0]
InitMemo ==
  /\ memo = [keyCols |-> Miss, visibleCols |-> Miss, nHeaderRows |-> Miss]
  /\ read = [what |-> "", value |-> 0]

\* the sheet has the one colorizer color_default
InitColorizers ==
  /\ colorizers = <<[precedence |-> 0, coloropt |-> "color_default",
                     func |-> [id |-> 1, r |-> "True"]]>>
  /\ cache = NoCache
  /\ colorized = NotColorized

InitRec ==
  /\ recorder = [activeCommand |-> NoCommand, rows |-> <<>>,
                 cmdlog_sheet |-> [sh \in RecSheets |-> <<>>]]
  /\ running = <<>>
  /\ escapedExecs = {}
  /\ nExec = 0
  /\ ret = NoCopy

Started == {L \in Logs : pc[L] # "idle"}

\* pauseSeen and credit are kept while one replay has been started, it is
\* current, and it is paused with no resume under way
Tracked == Cardinality(Started) = 1 /\ currentReplay # None /\ paused /\ uiPc = "idle"

(***************************************************************************)
(* The recorder as seen from replay: a command executed on the data sheet  *)
(* and not escaped is appended by afterExecSheet to the global log and to  *)
(* the acting sheet's cmdlog_sheet.                                        *)
(***************************************************************************)
afterExecSheet(rs, longname, escaped) ==
  IF ~escaped
  THEN [rs EXCEPT !["global"] = Append(@, longname),
                  !["sheet"] = Append(@, longname)]
  ELSE rs

(***************************************************************************)
(* CommandLog.advance and CommandLog.cancel                                *)
(***************************************************************************)
advance(sem) == sem + 1

cancel ==
  /\ currentReplayRow' = NoRow
  /\ currentReplay' = None
  /\ semaphore' = advance(semaphore)

(***************************************************************************)
(* Interface thread                                                        *)
(***************************************************************************)
\* replay-all on log L: asyncthread spawns a thread running replay_sync
Replay(L) ==
  /\ uiPc = "idle"
  /\ UNCHANGED notReplay
  /\ pc[L] = "idle"
  /\ Cardinality(Started) < MaxReplays
  /\ pc' = [pc EXCEPT ![L] = "start"]
  /\ pauseSeen' = FALSE
  /\ credit' = 0
  /\ UNCHANGED <<rows, logCursorRowIndex, currentReplay, currentReplayRow, paused,
                 semaphore, uiPc, cancelled, admitted, failed>>
  /\ UNCHANGED executed

\* pause-replay: togglePause.  When paused it first releases the semaphore
\* and only then flips the flag; the replay thread may run in between.
TogglePause ==
  /\ uiPc = "idle"
  /\ UNCHANGED notReplay
  /\ currentReplay # None
  /\ IF paused
     THEN /\ semaphore < MaxSem
          /\ semaphore' = advance(semaphore)
          /\ uiPc' = "flip"
          /\ UNCHANGED <<paused, pauseSeen, credit>>
     ELSE /\ paused' = TRUE
          /\ UNCHANGED <<pauseSeen, credit>>
          /\ UNCHANGED <<semaphore, uiPc>>
  /\ UNCHANGED <<rows, logCursorRowIndex, currentReplay, currentReplayRow, pc,
                 cancelled, admitted, failed>>
  /\ UNCHANGED executed

TogglePauseFlip ==
  /\ uiPc = "flip"
  /\ UNCHANGED notReplay
  /\ paused' = ~paused
  /\ uiPc' = "idle"
  /\ pauseSeen' = FALSE
  /\ credit' = 0
  /\ UNCHANGED <<rows, logCursorRowIndex, currentReplay, currentReplayRow,
                 semaphore, pc, cancelled, admitted, failed>>
  /\ UNCHANGED executed

\* advance-replay: (CommandLog.currentReplay or fail(...)).advance()
Advance ==
  /\ uiPc = "idle"
  /\ UNCHANGED notReplay
  /\ currentReplay # None
  /\ semaphore < MaxSem
  /\ semaphore' = advance(semaphore)
  /\ credit' = IF Tracked /\ credit >= 0 THEN credit + 1 ELSE credit
  /\ UNCHANGED <<rows, logCursorRowIndex, currentReplay, currentReplayRow, paused,
                 pc, uiPc, cancelled, admitted, failed, pauseSeen>>
  /\ UNCHANGED executed

\* stop-replay: (CommandLog.currentReplay or fail(...)).cancel()
Cancel ==
  /\ uiPc = "idle"
  /\ UNCHANGED notReplay
  /\ currentReplay # None
  /\ cancel
  /\ cancelled' = [cancelled EXCEPT ![currentReplay] = TRUE]
  /\ UNCHANGED <<rows, logCursorRowIndex, paused, pc, uiPc, admitted, failed,
                 pauseSeen, credit>>
  /\ UNCHANGED executed

(***************************************************************************)
(* Replay thread of log L: replay_sync, replayOne and delay                *)
(***************************************************************************)
\* self.cursorRowIndex = 0; CommandLog.currentReplay = self
ReplayStart(L) ==
  /\ pc[L] = "start"
  /\ UNCHANGED notReplay
  /\ logCursorRowIndex' = [logCursorRowIndex EXCEPT ![L] = 0]
  /\ currentReplay' = L
  /\ pc' = [pc EXCEPT ![L] = "loop"]
  /\ UNCHANGED <<rows, currentReplayRow, paused, semaphore, uiPc, histVars>>

\* while self.cursorRowIndex < len(self.rows): if currentReplay is None: return
\* ... after the loop: CommandLog.currentReplay = None
ReplayLoop(L) ==
  /\ pc[L] = "loop"
  /\ UNCHANGED notReplay
  /\ IF logCursorRowIndex[L] < Len(rows[L])
     THEN IF currentReplay = None
          THEN /\ pc' = [pc EXCEPT ![L] = "done"]
               /\ UNCHANGED <<currentReplay, admitted>>
          ELSE /\ pc' = [pc EXCEPT ![L] = "exec"]
               /\ admitted' = [admitted EXCEPT ![L] = cancelled[L]]
               /\ UNCHANGED currentReplay
     ELSE /\ currentReplay' = None
          /\ pc' = [pc EXCEPT ![L] = "done"]
          /\ UNCHANGED admitted
  /\ UNCHANGED <<rows, logCursorRowIndex, currentReplayRow, paused, semaphore, uiPc,
                 cancelled, failed, pauseSeen, credit>>
  /\ UNCHANGED executed

\* replayOne(self.cursorRow), up to the point where the command starts
ReplayOneBegin(L) ==
  /\ pc[L] = "exec"
  /\ UNCHANGED notReplay
  /\ logCursorRowIndex[L] < Len(rows[L])
  /\ currentReplayRow' = <<L, logCursorRowIndex[L] + 1>>
  /\ pc' = [pc EXCEPT ![L] = "executing"]
  /\ credit' = IF Tracked /\ pauseSeen /\ credit >= 0 THEN credit - 1 ELSE credit
  /\ UNCHANGED <<rows, logCursorRowIndex, currentReplay, paused, semaphore, uiPc,
                 cancelled, admitted, failed, pauseSeen>>
  /\ executed' = [executed EXCEPT ![L] = Append(@, logCursorRowIndex[L] + 1)]

\* the r of the replayOne(r) that the thread of L is in
replayedRow(L) == executed[L][Len(executed[L])]

\* what replaying one entry can come to: it completes ("ok"), reports an
\* escape ("esc"), or raises ("err": no such sheet, row or column)
Outcomes(longname) ==
  IF longname = "set-option" THEN {"ok", "esc"} ELSE {"ok", "esc", "err"}

\* What the execution of an entry leaves in the logs: exec_command hands the
\* command to afterExecSheet with its escaped flag; set-option entries are
\* not executed as commands, and an entry whose context does not resolve
\* raises before any command runs.
execLogged(rs, longname, res) ==
  IF longname = "set-option" \/ res = "err"
  THEN rs
  ELSE afterExecSheet(rs, longname, res = "esc")

\* replay_sync skipping over a failed entry instead of cancelling
ReplayOneEnd_SkipFailed(L) ==
  /\ pc[L] = "executing"
  /\ UNCHANGED notReplay
  /\ \E res \in Outcomes(rows[L][replayedRow(L)]) :
       failed' = [failed EXCEPT ![L] = @ \/ res # "ok"]
  /\ currentReplayRow' = NoRow
  /\ logCursorRowIndex' = [logCursorRowIndex EXCEPT ![L] = @ + 1]
  /\ pc' = [pc EXCEPT ![L] = "delay"]
  /\ UNCHANGED <<rows, currentReplay, semaphore>>
  /\ UNCHANGED <<paused, uiPc, cancelled, admitted, pauseSeen, credit>>
  /\ UNCHANGED executed

\* the rest of replayOne and what replay_sync does with its result
ReplayOneEnd(L) ==
  /\ pc[L] = "executing"
  /\ UNCHANGED notReplay
  /\ LET longname == rows[L][replayedRow(L)] IN
     \E res \in Outcomes(longname) :
       /\ rows' = execLogged(rows, longname, res)
       /\ \A M \in Logs : Len(rows'[M]) <= MaxLog
       /\ IF res = "ok"
          THEN /\ currentReplayRow' = NoRow
               /\ logCursorRowIndex' = [logCursorRowIndex EXCEPT ![L] = @ + 1]
               /\ pc' = [pc EXCEPT ![L] = "delay"]
               /\ UNCHANGED <<currentReplay, semaphore, failed>>
          ELSE /\ cancel
               /\ pc' = [pc EXCEPT ![L] = "done"]
               /\ failed' = [failed EXCEPT ![L] = TRUE]
               /\ UNCHANGED logCursorRowIndex
  /\ UNCHANGED <<paused, uiPc, cancelled, admitted, pauseSeen, credit>>
  /\ UNCHANGED executed

\* delay(): the timeout of semaphore.acquire is chosen from self.paused
DelayEnter(L) ==
  /\ pc[L] = "delay"
  /\ UNCHANGED notReplay
  /\ pc' = [pc EXCEPT ![L] = IF paused THEN "acquireWait" ELSE "acquireTimed"]
  /\ pauseSeen' = (pauseSeen \/ Tracked)
  /\ UNCHANGED <<rows, logCursorRowIndex, currentReplay, currentReplayRow, paused,
                 semaphore, uiPc, cancelled, admitted, failed, credit>>
  /\ UNCHANGED executed

\* semaphore.acquire(timeout=None): blocks until a token is there
AcquireWait(L) ==
  /\ pc[L] = "acquireWait"
  /\ UNCHANGED notReplay
  /\ semaphore > 0
  /\ semaphore' = semaphore - 1
  /\ pc' = [pc EXCEPT ![L] = "loop"]
  /\ UNCHANGED <<rows, logCursorRowIndex, currentReplay, currentReplayRow, paused,
                 uiPc, histVars>>

\* semaphore.acquire(timeout=replay_wait): takes a token or times out
AcquireTimed(L) ==
  /\ pc[L] = "acquireTimed"
  /\ UNCHANGED notReplay
  /\ IF semaphore > 0
     THEN /\ semaphore' = semaphore - 1
          /\ pc' = [pc EXCEPT ![L] = "loop"]
     ELSE /\ pc' = [pc EXCEPT ![L] = "delayReturn"]
          /\ UNCHANGED semaphore
  /\ UNCHANGED <<rows, logCursorRowIndex, currentReplay, currentReplayRow, paused,
                 uiPc, histVars>>

\* return acquired or not self.paused, with acquired False
DelayReturn(L) ==
  /\ pc[L] = "delayReturn"
  /\ UNCHANGED notReplay
  /\ pc' = [pc EXCEPT ![L] = IF paused THEN "delay" ELSE "loop"]
  /\ UNCHANGED <<rows, logCursorRowIndex, currentReplay, currentReplayRow, paused,
                 semaphore, uiPc, histVars>>

ReplayThread(L) ==
  \/ ReplayStart(L)
  \/ ReplayLoop(L)
  \/ ReplayOneBegin(L)
  \/ ReplayOneEnd(L)
  \/ DelayEnter(L)
  \/ AcquireWait(L)
  \/ AcquireTimed(L)
  \/ DelayReturn(L)

ReplayNext ==
  \/ \E L \in Logs : Replay(L)
  \/ TogglePause
  \/ TogglePauseFlip
  \/ Advance
  \/ Cancel
  \/ \E L \in Logs : ReplayThread(L)

Next == ReplayNext

Init == InitReplay /\ InitSheet /\ InitTable /\ InitRec /\ InitColorizers /\ InitMemo

Spec == Init /\ [][Next]_vars

FairSpec == Spec /\ \A L \in Logs : WF_vars(ReplayThread(L))

(***************************************************************************)
(* The sheet viewport (_sheet.py).  `sheet` is one Sheet object: its       *)
(* columns, its number of rows, the window and the viewport fields.        *)
(*   columns[i]: [width, keycol, hidden], width NoWidth when it is None    *)
(*   raised: the exception the last handler ended with, "" when none       *)
(***************************************************************************)
minColWidth == 2     \* len(options.disp_more_left)+len(options.disp_more_right)
sepColWidth == 1     \* len(options.disp_column_sep)
nFooterRows == 1

\* python's seq[a:b], as the number of elements it yields for len(seq) = n
SliceLen(n, a, b) ==
  LET lo == IF a < 0 THEN Max(a + n, 0) ELSE Min(a, n)
      hi == IF b < 0 THEN Max(b + n, 0) ELSE Min(b, n)
  IN Max(hi - lo, 0)

\* [c for c in self.columns if ...]: the indices in S, in the columns' order
SelectIdx(n, S) ==
  LET F[i \in 0..n] ==
        IF i = 0 THEN <<>>
        ELSE IF i \in S THEN Append(F[i-1], i) ELSE F[i-1]
  IN F[n]

\* keyCols that keeps the hidden key columns
keyCols_WithHidden(s) ==
  SelectIdx(Len(s.columns), {i \in 1..Len(s.columns) : s.columns[i].keycol})

\* keyCols and visibleCols, as sequences of indices into columns
keyCols(s) ==
  SelectIdx(Len(s.columns),
            {i \in 1..Len(s.columns) : s.columns[i].keycol /\ ~s.columns[i].hidden})
visibleCols(s) ==
  keyCols(s) \o
  SelectIdx(Len(s.columns),
            {i \in 1..Len(s.columns) : ~s.columns[i].hidden /\ ~s.columns[i].keycol})
nVisibleCols(s) == Len(visibleCols(s))
InSeq(x, sq) == \E i \in 1..Len(sq) : sq[i] = x

nHeaderRows(s) == IF nVisibleCols(s) > 0 THEN 1 ELSE 0
nVisibleRows(s) ==
  IF s.rowLayoutLen # 0 THEN s.rowLayoutLen
  ELSE s.windowHeight - nHeaderRows(s) - nFooterRows
lenVisibleRows(s) ==
  SliceLen(s.nRows, s.topRowIndex, s.topRowIndex + nVisibleRows(s))

\* a layout entry that is not cut at the window's edge
layoutEntry_Unclipped(x, width, winWidth) == <<x, width>>

\* calcColLayout: the entry [x, min(width, winWidth-x)] of a laid-out column
layoutEntry(x, width, winWidth) == <<x, Min(width, winWidth - x)>>

\* calcColLayout.  mw is what Column.getMaxWidth answers for the rows on
\* screen when a width is still to be found.
RECURSIVE calcColLoop(_, _, _, _)
calcColLoop(s, mw, vcolidx, x) ==
  IF vcolidx >= nVisibleCols(s)
  THEN [s EXCEPT !.rightVisibleColIndex = Max(nVisibleCols(s) - 1, 0)]
  ELSE
    LET ci == visibleCols(s)[vcolidx + 1]
        col == s.columns[ci]
        found == IF vcolidx # nVisibleCols(s) - 1
                 THEN Min(mw + minColWidth, s.default_width)
                 ELSE mw + minColWidth
        colwidth == IF col.width = NoWidth /\ lenVisibleRows(s) > 0
                    THEN found ELSE col.width
        w0 == IF colwidth # NoWidth THEN colwidth ELSE s.default_width
        iskey == InSeq(ci, keyCols(s))
        width == IF iskey THEN Max(w0, 1) ELSE w0
        shown == iskey \/ vcolidx >= s.leftVisibleColIndex
        x1 == IF shown THEN x + width + sepColWidth ELSE x
        s1 == [s EXCEPT !.columns[ci].width = colwidth,
                        !.visibleColLayout =
                           IF shown
                           THEN (vcolidx :> layoutEntry(x, width, s.windowWidth)) @@ @
                           ELSE @]
    IN IF x1 > s.windowWidth - 1
       THEN [s1 EXCEPT !.rightVisibleColIndex = vcolidx]
       ELSE calcColLoop(s1, mw, vcolidx + 1, x1)

calcColLayout(s, mw) ==
  calcColLoop([s EXCEPT !.visibleColLayout = <<>>], mw, 0, 0)

LayoutKeys(s) == DOMAIN s.visibleColLayout
MinOf(S) == CHOOSE m \in S : \A k \in S : m <= k
MaxOf(S) == CHOOSE m \in S : \A k \in S : m >= k

\* checkCursor, the loop that scrolls the cursor column into view
RECURSIVE scrollToCursor(_, _)
scrollToCursor(s, mw) ==
  IF s.leftVisibleColIndex = s.cursorVisibleColIndex
  THEN s
  ELSE
    LET s1 == calcColLayout(s, mw) IN
    IF LayoutKeys(s1) = {}
    THEN [s1 EXCEPT !.raised = "ValueError"]      \* min() of an empty sequence
    ELSE
      LET mincolidx == MinOf(LayoutKeys(s1))
          maxcolidx == MaxOf(LayoutKeys(s1))
      IN
      IF s1.cursorVisibleColIndex < mincolidx
      THEN [s1 EXCEPT !.raised = "NameError"]     \* mincolid is not defined
      ELSE IF s1.cursorVisibleColIndex > maxcolidx
      THEN scrollToCursor(
             [s1 EXCEPT !.leftVisibleColIndex =
                 @ + Max((maxcolidx - s1.cursorVisibleColIndex) \div 2, 1)], mw)
      ELSE IF s1.cursorVisibleColIndex \notin LayoutKeys(s1)
      THEN [s1 EXCEPT !.raised = "KeyError"]
      ELSE
        LET cur == s1.visibleColLayout[s1.cursorVisibleColIndex] IN
        IF cur[1] + cur[2] < s1.windowWidth
        THEN s1
        ELSE scrollToCursor([s1 EXCEPT !.leftVisibleColIndex = @ + 1], mw)

\* a clamp that lets the row cursor rest one past the last row
clampCursorRow_PastEnd(s) ==
  IF s.cursorRowIndex <= 0 THEN 0 ELSE Min(s.cursorRowIndex, s.nRows)

\* checkCursor, the clamping of the row cursor
clampCursorRow(s) ==
  IF s.nRows = 0 \/ s.cursorRowIndex <= 0 THEN 0
  ELSE IF s.cursorRowIndex >= s.nRows THEN s.nRows - 1
  ELSE s.cursorRowIndex

\* checkCursor, the clamping of the column cursor
clampCursorCol(s) ==
  IF s.cursorVisibleColIndex <= 0 THEN 0
  ELSE IF s.cursorVisibleColIndex >= nVisibleCols(s) THEN nVisibleCols(s) - 1
  ELSE s.cursorVisibleColIndex

\* checkCursor, the clamping of topRowIndex
clampTopRow(s) ==
  IF s.topRowIndex <= 0 THEN 0
  ELSE IF s.topRowIndex > s.nRows - 1 THEN s.nRows - 1
  ELSE s.topRowIndex

\* a checkCursor that scrolls down one row short of the cursor
checkCursor_ScrollsOneShort(s0, mw) ==
  LET s1 == [s0 EXCEPT !.raised = NoRaise, !.cursorRowIndex = clampCursorRow(s0)]
      s2 == [s1 EXCEPT !.cursorVisibleColIndex = clampCursorCol(s1)]
      s3 == [s2 EXCEPT !.topRowIndex = clampTopRow(s2)]
      x == s3.cursorVisibleColIndex - s3.leftVisibleColIndex
      y == s3.cursorRowIndex - s3.topRowIndex + nHeaderRows(s3)
      s4 == IF y < nHeaderRows(s3)
            THEN [s3 EXCEPT !.topRowIndex = s3.cursorRowIndex]
            ELSE IF y > nHeaderRows(s3) + nVisibleRows(s3) - 1
            THEN [s3 EXCEPT !.topRowIndex = s3.cursorRowIndex - nVisibleRows(s3)]
            ELSE s3
  IN IF x <= 0
     THEN [s4 EXCEPT !.leftVisibleColIndex = s4.cursorVisibleColIndex]
     ELSE scrollToCursor(s4, mw)

\* checkCursor
checkCursor(s0, mw) ==
  LET s1 == [s0 EXCEPT !.raised = NoRaise, !.cursorRowIndex = clampCursorRow(s0)]
      s2 == [s1 EXCEPT !.cursorVisibleColIndex = clampCursorCol(s1)]
      s3 == [s2 EXCEPT !.topRowIndex = clampTopRow(s2)]
      x == s3.cursorVisibleColIndex - s3.leftVisibleColIndex
      y == s3.cursorRowIndex - s3.topRowIndex + nHeaderRows(s3)
      s4 == IF y < nHeaderRows(s3)
            THEN [s3 EXCEPT !.topRowIndex = s3.cursorRowIndex]
            ELSE IF y > nHeaderRows(s3) + nVisibleRows(s3) - 1
            THEN [s3 EXCEPT !.topRowIndex = s3.cursorRowIndex - nVisibleRows(s3) + 1]
            ELSE s3
  IN IF x <= 0
     THEN [s4 EXCEPT !.leftVisibleColIndex = s4.cursorVisibleColIndex]
     ELSE scrollToCursor(s4, mw)

\* cursorDown(n), cursorRight(n)
cursorDown(s, n) == [s EXCEPT !.raised = NoRaise, !.cursorRowIndex = @ + n]
cursorRight(s, n, mw) ==
  calcColLayout([s EXCEPT !.raised = NoRaise, !.cursorVisibleColIndex = @ + n], mw)

(***************************************************************************)
(* SpecCols: the horizontal viewport.  Init draws the sheet: the widths of *)
(* its NCols columns, how many leading columns are key columns, how many   *)
(* trailing columns are hidden, whether it has rows, and the window width. *)
(***************************************************************************)
Widths == {NoWidth} \cup (1..MaxWidth)

\* What Column.getMaxWidth may answer: it is only asked when a visible column
\* has no width yet and there are rows on screen.
MaxWidths(s) ==
  IF /\ \E j \in 1..nVisibleCols(s) : s.columns[visibleCols(s)[j]].width = NoWidth
     /\ s.nRows > 0
  THEN 0..MaxContent ELSE {0}

InitCols ==
  /\ InitReplay /\ InitTable /\ InitRec /\ InitColorizers /\ InitMemo
  /\ \E w \in [1..NCols -> Widths], nKeys \in 0..NCols, nHidden \in 0..NCols,
        n \in {0, 1}, ww \in 1..MaxWin :
       /\ nKeys + nHidden <= NCols
       /\ sheet = NewSheet([i \in 1..NCols |->
                           Column("", w[i], i <= nKeys, i > NCols - nHidden)],
                        n, ww, MaxHeight, DefaultWidth)
  /\ lastOp = ""
  /\ pre = NoPre

\* go-left, go-right.  draw runs checkCursor after every command, so that the
\* cursor is at most one step out of range.
GoRight(n) ==
  /\ sheet.cursorVisibleColIndex + n \in (0 - 1)..NCols
  /\ \E mw \in MaxWidths(sheet) : sheet' = cursorRight(sheet, n, mw)
  /\ lastOp' = "cursorRight"
  /\ pre' = NoPre
  /\ UNCHANGED notView

\* go-leftmost
GoLeftmost ==
  /\ sheet' = [sheet EXCEPT !.raised = NoRaise, !.cursorVisibleColIndex = 0,
                            !.leftVisibleColIndex = 0]
  /\ lastOp' = "go-leftmost"
  /\ pre' = NoPre
  /\ UNCHANGED notView

\* draw, up to and including calcColLayout
CalcColLayout ==
  /\ \E mw \in MaxWidths(sheet) :
       sheet' = calcColLayout([sheet EXCEPT !.raised = NoRaise], mw)
  /\ lastOp' = "calcColLayout"
  /\ pre' = NoPre
  /\ UNCHANGED notView

\* checkCursor, as draw calls it
CheckCursor ==
  /\ \E mw \in MaxWidths(sheet) : sheet' = checkCursor(sheet, mw)
  /\ lastOp' = "checkCursor"
  /\ pre' = <<sheet.cursorRowIndex, sheet.cursorVisibleColIndex,
             sheet.topRowIndex>>
  /\ UNCHANGED notView

ColsNext ==
  \/ \E n \in {-1, 1} : GoRight(n)
  \/ GoLeftmost
  \/ CalcColLayout
  \/ CheckCursor

SpecCols == InitCols /\ [][ColsNext]_vars

(***************************************************************************)
(* SpecRows: the vertical viewport.  Init draws the number of rows, the    *)
(* window height and whether the sheet has visible columns at all.         *)
(***************************************************************************)
InitRows ==
  /\ InitReplay /\ InitTable /\ InitRec /\ InitColorizers /\ InitMemo
  /\ \E n \in 0..MaxRows, wh \in 2..MaxHeight, hid \in BOOLEAN :
       sheet = NewSheet([i \in 1..NCols |-> Column("", MaxWidth, FALSE, hid)],
                        n, MaxWin, wh, DefaultWidth)
  /\ lastOp = ""
  /\ pre = NoPre

RowInRange(i) == i \in (0 - Slack)..(sheet.nRows + Slack)

\* go-down, go-up
GoDown(n) ==
  /\ RowInRange(sheet.cursorRowIndex + n)
  /\ sheet' = cursorDown(sheet, n)
  /\ lastOp' = "cursorDown"
  /\ pre' = NoPre
  /\ UNCHANGED notView

\* next-page, prev-page: cursorDown(+-nVisibleRows); topRowIndex +-= nVisibleRows
Page(sign) ==
  LET n == sign * nVisibleRows(sheet) IN
  /\ RowInRange(sheet.cursorRowIndex + n)
  /\ RowInRange(sheet.topRowIndex + n)
  /\ sheet' = [cursorDown(sheet, n) EXCEPT !.topRowIndex = @ + n]
  /\ lastOp' = "page"
  /\ pre' = NoPre
  /\ UNCHANGED notView

\* go-bottom: cursorRowIndex = len(rows); topRowIndex = cursorRowIndex-nVisibleRows
GoBottom ==
  /\ RowInRange(sheet.nRows - nVisibleRows(sheet))
  /\ sheet' = [sheet EXCEPT !.raised = NoRaise, !.cursorRowIndex = sheet.nRows,
                            !.topRowIndex = sheet.nRows - nVisibleRows(sheet)]
  /\ lastOp' = "go-bottom"
  /\ pre' = NoPre
  /\ UNCHANGED notView

\* scroll-up, scroll-down: cursorDown(+-options.scroll_incr);
\* topRowIndex +-= options.scroll_incr
ScrollRows(incr) ==
  /\ RowInRange(sheet.cursorRowIndex + incr)
  /\ RowInRange(sheet.topRowIndex + incr)
  /\ sheet' = [cursorDown(sheet, incr) EXCEPT !.topRowIndex = @ + incr]
  /\ lastOp' = "scroll"
  /\ pre' = NoPre
  /\ UNCHANGED notView

RowsNext ==
  \/ \E n \in {-1, 1} : GoDown(n)
  \/ \E sign \in {-1, 1} : Page(sign)
  \/ \E incr \in {-1, 1} : ScrollRows(incr)
  \/ GoBottom
  \/ CheckCursor

SpecRows == InitRows /\ [][RowsNext]_vars

(***************************************************************************)
(* SpecDraw: the vertical viewport with the whole of draw.  Every row has  *)
(* height 1.  After a draw `pre` is the local `rows` of draw: the indices  *)
(* in self.rows of the rows it sliced, in the order it painted them.       *)
(***************************************************************************)
\* python's range(n)[a:b], the indices of the elements seq[a:b] yields
SliceIdx(n, a, b) ==
  LET lo == IF a < 0 THEN Max(a + n, 0) ELSE Min(a, n)
      hi == IF b < 0 THEN Max(b + n, 0) ELSE Min(b, n)
  IN [k \in 1..Max(hi - lo, 0) |-> lo + k - 1]

\* draw, line 543: the rows it will paint, taken at topRowIndex before
\* checkCursor runs (rowLayout is empty then)
slicedRows(s) ==
  SliceIdx(s.nRows, s.topRowIndex, Min(s.topRowIndex + nVisibleRows(s), s.nRows))

\* draw, the loop: one drawRow per sliced row while y < windowHeight-1;
\* drawRow stores rowLayout[rowidx] for the rowidx it is given, topRowIndex+k
paintedRows(s, rows0) ==
  SubSeq(rows0, 1, Min(Len(rows0), Max(s.windowHeight - 1 - nHeaderRows(s), 0)))

\* draw, one pass of the interface loop over the sheet on screen:
\* rowLayout = {}, calcColLayout, the slice, checkCursor, the loop
Draw ==
  /\ \E mw \in MaxWidths(sheet) :
       \E s1 \in {calcColLayout([sheet EXCEPT !.raised = NoRaise,
                                              !.rowLayoutLen = 0], mw)} :
         \E s2 \in {checkCursor(s1, mw)} :
           /\ pre' = paintedRows(s2, slicedRows(s1))
           /\ sheet' = [s2 EXCEPT !.raised = NoRaise, !.rowLayoutLen = Len(pre')]
  /\ lastOp' = "draw"
  /\ UNCHANGED notView

DrawNext ==
  \/ \E n \in {-1, 1} : GoDown(n)
  \/ \E sign \in {-1, 1} : Page(sign)
  \/ \E incr \in {-1, 1} : ScrollRows(incr)
  \/ GoBottom
  \/ Draw

SpecDraw == InitRows /\ [][DrawNext]_vars

(***************************************************************************)
(* SpecTrip: a live session whose commands are logged, and the replay of   *)
(* that log on a copy of the original input.  Strings that the code        *)
(* converts are modelled by what str() and int() do to them: the `row' of  *)
(* an entry is a sequence of pieces (the prefix and the characters of the  *)
(* joined key, or the digits of an index), the `col' of an entry is a name *)
(* or the digits of an index.  A cell holds a typed value: its type and    *)
(* the characters str() gives for it.                                      *)
(***************************************************************************)
StrVal(chars) == [type |-> "str", text |-> chars]
IntVal(chars) == [type |-> "int", text |-> chars]

\* str(v) of a cell's value: the characters, without the type
str_value(v) == v.text

\* ','.join(map(str, k))
RECURSIVE join(_)
join(k) ==
  IF k = <<>> THEN <<>>
  ELSE IF Len(k) = 1 THEN str_value(k[1])
  ELSE str_value(Head(k)) \o <<",">> \o join(Tail(k))

DigitStr == <<"0", "1", "2", "3", "4", "5", "6", "7", "8", "9">>
str(i) == DigitStr[i + 1]
\* whether int(st) answers, and its answer
IsInt(st) == \E i \in 1..Len(DigitStr) : DigitStr[i] = st
int(st) == (CHOOSE i \in 1..Len(DigitStr) : DigitStr[i] = st) - 1

NoIndex == -1                      \* indexMatch answers None
rowkey_prefix == "rowkey_prefix"   \* the value of options.rowkey_prefix

rowkey(t, r) == [j \in 1..Len(keyCols(t)) |-> t.cells[r][keyCols(t)[j]]]
keystr(k) == <<rowkey_prefix>> \o join(k)

\* the smallest index, counted from 0, among the indices S that match
indexMatch(S) ==
  IF S # {} THEN MinOf(S) - 1 ELSE NoIndex

\* cursorCol, as an index into columns (the cursor is never negative here)
cursorCol(t) ==
  LET vcols == visibleCols(t)
  IN vcols[Min(t.cursorVisibleColIndex, Len(vcols) - 1) + 1]

\* the execstr of the command mentions cursorRow / cursorCol
UsesRow(longname) == longname \in {"edit-cell", "setcol-input"}
UsesCol(longname) == longname \in {"edit-cell", "setcol-input", "key-col"}

beforeExecHook(t, longname, input) ==
  LET k == rowkey(t, t.cursorRowIndex + 1)
      ci == cursorCol(t)
  IN [ sheet |-> "data",
       row |-> IF UsesRow(longname) /\ Len(t.cells) > 0
               THEN (IF k # <<>> THEN keystr(k) ELSE <<str(t.cursorRowIndex)>>)
               ELSE <<>>,
       col |-> IF UsesCol(longname)
               THEN (IF t.columns[ci].name # "" THEN t.columns[ci].name
                     ELSE str(indexMatch({j \in 1..Len(visibleCols(t)) :
                                             visibleCols(t)[j] = ci})))
               ELSE "",
       longname |-> longname,
       input |-> input ]

\* edit-cell: cursorCol.setValues([cursorRow], input); key-col: toggleKeys([cursorCol])
exec_command(t, longname, input) ==
  IF longname = "edit-cell"
  THEN [t EXCEPT !.cells[t.cursorRowIndex + 1][cursorCol(t)] = StrVal(<<input>>)]
  ELSE [t EXCEPT !.columns[cursorCol(t)].keycol = ~@]

getRowIndexFromStr(t, rowstr) ==
  LET index == indexMatch({r \in 1..Len(t.cells) : keystr(rowkey(t, r)) = rowstr})
  IN IF index # NoIndex THEN index
     ELSE IF Len(rowstr) = 1 /\ IsInt(rowstr[1]) THEN int(rowstr[1])
     ELSE NoIndex

\* moveToRow, moveToCol: the sheet moved, or NoIndex in place of the cursor
moveToRow(t, rowstr) ==
  [t EXCEPT !.cursorRowIndex = getRowIndexFromStr(t, rowstr)]

moveToCol(t, colstr) ==
  [t EXCEPT !.cursorVisibleColIndex =
     IF IsInt(colstr) THEN int(colstr)
     ELSE indexMatch({j \in 1..Len(visibleCols(t)) :
                        t.columns[visibleCols(t)[j]].name = colstr})]

\* moveToReplayContext and replayOne: the sheet after the entry, and whether
\* the entry raised
replayOne(t, r) ==
  LET t1 == IF r.row # <<>> THEN moveToRow(t, r.row) ELSE t
      t2 == IF r.col # "" THEN moveToCol(t1, r.col) ELSE t1
  IN IF t1.cursorRowIndex = NoIndex \/ t2.cursorVisibleColIndex = NoIndex
        \/ t2.cursorRowIndex >= Len(t2.cells)
     THEN [t |-> t, raised |-> TRUE]
     ELSE [t |-> exec_command(t2, r.longname, r.input), raised |-> FALSE]

Names == {"a", "1", ""}

InitTrip ==
  /\ InitReplay /\ InitSheet /\ InitRec /\ InitColorizers /\ InitMemo
  /\ \E nm \in [1..NFields -> Names], nKeys \in 0..NFields,
        v \in {StrVal(<<"x">>), StrVal(<<"y">>)} :
       live = Table([c \in 1..NFields |-> Column(nm[c], NoWidth, c <= nKeys, FALSE)],
                    [r \in 1..NRecords |->
                       [c \in 1..NFields |-> IF r = 2 /\ c = 1 THEN v
                                             ELSE StrVal(<<"x">>)]])
  /\ replica = live
  /\ tableLog = <<>>
  /\ tablePc = "live"
  /\ tablePos = 0
  /\ marked = <<>>
  /\ landed = 0

\* cursor movement (go-...), which is not logged
LiveMove(r, c) ==
  /\ tablePc = "live"
  /\ <<r, c>> # <<live.cursorRowIndex, live.cursorVisibleColIndex>>
  /\ live' = [live EXCEPT !.cursorRowIndex = r, !.cursorVisibleColIndex = c]
  /\ UNCHANGED <<replica, tableLog, tablePc, tablePos>>
  /\ UNCHANGED notTable

\* a command of the live session: beforeExecHook, the command, afterExecSheet
LiveCommand(longname, input) ==
  /\ tablePc = "live"
  /\ Len(tableLog) < MaxCmds
  /\ tableLog' = Append(tableLog, beforeExecHook(live, longname, input))
  /\ live' = exec_command(live, longname, input)
  /\ UNCHANGED <<replica, tablePc, tablePos>>
  /\ UNCHANGED notTable

EditCell == LiveCommand("edit-cell", "z")
KeyCol == LiveCommand("key-col", "")

\* the log is replayed on the copy of the original input
ReplayCopy ==
  /\ tablePc = "live"
  /\ tableLog # <<>>
  /\ tablePc' = "replay"
  /\ tablePos' = 1
  /\ UNCHANGED <<live, replica, tableLog>>
  /\ UNCHANGED notTable

ReplayEntry ==
  /\ tablePc = "replay"
  /\ LET res == replayOne(replica, tableLog[tablePos]) IN
       /\ replica' = res.t
       /\ tablePc' = IF res.raised THEN "error"
                     ELSE IF tablePos = Len(tableLog) THEN "done" ELSE "replay"
       /\ tablePos' = IF res.raised THEN tablePos ELSE tablePos + 1
  /\ UNCHANGED <<live, tableLog>>
  /\ UNCHANGED notTable

TripNext ==
  \/ \E r \in 0..(NRecords - 1), c \in 0..(NFields - 1) : LiveMove(r, c)
  \/ EditCell
  \/ KeyCol
  \/ ReplayCopy
  \/ ReplayEntry

SpecTrip == InitTrip /\ [][TripNext]_vars

(***************************************************************************)
(* SpecKey: a sheet with key columns whose rows have pairwise-distinct     *)
(* keys.  Commands that mention cursorRow are logged, the rows are         *)
(* reordered, and moveToRow looks a logged row up again.                   *)
(***************************************************************************)
KeyVals ==
  {IntVal(<<"1">>), StrVal(<<"1">>), StrVal(<<"1", ",", "1">>), StrVal(<<"2">>)}

InitKey ==
  /\ InitReplay /\ InitSheet /\ InitRec /\ InitColorizers /\ InitMemo
  /\ \E nKeys \in 1..NFields, cells \in [1..NRecords -> [1..NFields -> KeyVals]] :
       /\ \A r \in 1..NRecords, c \in (nKeys + 1)..NFields :
            cells[r][c] = StrVal(<<"2">>)
       /\ live = Table([c \in 1..NFields |-> Column("a", NoWidth, c <= nKeys, FALSE)],
                       cells)
       /\ \A r1, r2 \in 1..NRecords :
            r1 # r2 => rowkey(live, r1) # rowkey(live, r2)
  /\ replica = live
  /\ tableLog = <<>>
  /\ tablePc = "live"
  /\ tablePos = 0
  /\ marked = <<>>
  /\ landed = 0

\* go-down / go-up: the cursor moves to another row
KeyMove(r) ==
  /\ r # live.cursorRowIndex
  /\ live' = [live EXCEPT !.cursorRowIndex = r]
  /\ landed' = 0
  /\ UNCHANGED <<replica, tableLog, tablePc, tablePos, marked>>
  /\ UNCHANGED notKey

\* setcol-input with no row selected: the command mentions cursorDisplay, so
\* beforeExecHook records the cursor row, and it changes no row
KeyCommand ==
  /\ Len(tableLog) < MaxCmds
  /\ tableLog' = Append(tableLog, beforeExecHook(live, "setcol-input", "z"))
  /\ marked' = Append(marked, rowkey(live, live.cursorRowIndex + 1))
  /\ landed' = 0
  /\ UNCHANGED <<live, replica, tablePc, tablePos>>
  /\ UNCHANGED notKey

\* the rows are reordered (two neighbours change places); the cursor stays at
\* its index
Reorder(i) ==
  /\ live' = [live EXCEPT !.cells = [live.cells EXCEPT ![i] = live.cells[i + 1],
                                                       ![i + 1] = live.cells[i]]]
  /\ landed' = 0
  /\ UNCHANGED <<replica, tableLog, tablePc, tablePos, marked>>
  /\ UNCHANGED notKey

\* moveToRow on the row field of a logged entry
MoveToRow(i) ==
  /\ landed = 0
  /\ live' = moveToRow(live, tableLog[i].row)
  /\ landed' = i
  /\ UNCHANGED <<replica, tableLog, tablePc, tablePos, marked>>
  /\ UNCHANGED notKey

KeyNext ==
  \/ \E r \in 0..(NRecords - 1) : KeyMove(r)
  \/ KeyCommand
  \/ \E i \in 1..(NRecords - 1) : Reorder(i)
  \/ \E i \in 1..Len(tableLog) : MoveToRow(i)

SpecKey == InitKey /\ [][KeyNext]_vars

(***************************************************************************)
(* SpecCursor: a replay of the .vd log while the interface shows the log   *)
(* sheet.  replay_sync keeps its position in self.cursorRowIndex, the      *)
(* cursor of the log sheet, which go-down / go-up move and which draw      *)
(* clamps through checkCursor.  The replay is never cancelled.             *)
(***************************************************************************)
\* the log sheet L as checkCursor sees it
LogSheet(L) == [nRows |-> Len(rows[L]), cursorRowIndex |-> logCursorRowIndex[L]]

\* the interface may act on the cursor of L: L is being replayed, and fewer
\* than MaxLog entries have been executed
Shown(L) ==
  /\ uiPc = "idle"
  /\ pc[L] \notin {"idle", "done"}
  /\ Len(executed[L]) < MaxLog

\* go-down / go-up on the log sheet: cursorDown(n), kept within 0..nRows
LogCursorDown(L, n) ==
  /\ Shown(L)
  /\ logCursorRowIndex[L] + n \in 0..Len(rows[L])
  /\ logCursorRowIndex' = [logCursorRowIndex EXCEPT ![L] = @ + n]
  /\ UNCHANGED <<rows, currentReplay, currentReplayRow, paused, semaphore, pc, uiPc,
                 histVars>>
  /\ UNCHANGED notReplay

\* draw of the log sheet: checkCursor clamps its cursor into the rows
LogCheckCursor(L) ==
  /\ Shown(L)
  /\ logCursorRowIndex' =
       [logCursorRowIndex EXCEPT ![L] = clampCursorRow(LogSheet(L))]
  /\ UNCHANGED <<rows, currentReplay, currentReplayRow, paused, semaphore, pc, uiPc,
                 histVars>>
  /\ UNCHANGED notReplay

CursorNext ==
  \/ Replay("file")
  \/ TogglePause
  \/ TogglePauseFlip
  \/ Advance
  \/ \E L \in Logs : ReplayThread(L)
  \/ \E n \in {-1, 1} : LogCursorDown("file", n)
  \/ LogCheckCursor("file")

SpecCursor == Init /\ [][CursorNext]_vars

(***************************************************************************)
(* SpecName: a sheet whose visible columns have pairwise-distinct names.   *)
(* Commands that mention cursorCol are logged, the cursor moves on, and    *)
(* moveToCol looks a logged column up again.  The columns do not change.   *)
(***************************************************************************)
InitName ==
  /\ InitReplay /\ InitSheet /\ InitRec /\ InitColorizers /\ InitMemo
  /\ \E nm \in [1..NFields -> Names], nKeys \in 0..NFields :
       /\ \A c1, c2 \in 1..NFields : c1 # c2 => nm[c1] # nm[c2]
       /\ live = Table([c \in 1..NFields |-> Column(nm[c], NoWidth, c <= nKeys, FALSE)],
                       [r \in 1..NRecords |-> [c \in 1..NFields |-> StrVal(<<"x">>)]])
  /\ replica = live
  /\ tableLog = <<>>
  /\ tablePc = "live"
  /\ tablePos = 0
  /\ marked = <<>>
  /\ landed = 0

\* go-left / go-right: the cursor moves to another visible column
NameMove(c) ==
  /\ c # live.cursorVisibleColIndex
  /\ live' = [live EXCEPT !.cursorVisibleColIndex = c]
  /\ landed' = 0
  /\ UNCHANGED <<replica, tableLog, tablePc, tablePos, marked>>
  /\ UNCHANGED notKey

\* setcol-input with no row selected: the command mentions cursorCol, so
\* beforeExecHook records the cursor column, and it changes no column
NameCommand ==
  /\ Len(tableLog) < MaxCmds
  /\ tableLog' = Append(tableLog, beforeExecHook(live, "setcol-input", "z"))
  /\ marked' = Append(marked, cursorCol(live))
  /\ landed' = 0
  /\ UNCHANGED <<live, replica, tablePc, tablePos>>
  /\ UNCHANGED notKey

\* moveToCol on the col field of a logged entry
MoveToCol(i) ==
  /\ landed = 0
  /\ live' = moveToCol(live, tableLog[i].col)
  /\ landed' = i
  /\ UNCHANGED <<replica, tableLog, tablePc, tablePos, marked>>
  /\ UNCHANGED notKey

NameNext ==
  \/ \E c \in 0..(NFields - 1) : NameMove(c)
  \/ NameCommand
  \/ \E i \in 1..Len(tableLog) : MoveToCol(i)

SpecName == InitName /\ [][NameNext]_vars

(***************************************************************************)
(* SpecContext: replayOne on entries that were not recorded from this      *)
(* sheet (a .vd file written by hand or recorded elsewhere): every entry   *)
(* names a sheet, a row and a column that may or may not exist.            *)
(* options.replay_movement has its default, False.                         *)
(***************************************************************************)
SheetName == "data"     \* the name of the one sheet vd.getSheet can find

\* moveToReplayContext: the sheet after it, whether it returned a sheet, and
\* the error it raised ("" when none)
moveToReplayContext(t, r) ==
  IF r.sheet = "" THEN [t |-> t, vs |-> FALSE, raised |-> ""]
  ELSE IF r.sheet # SheetName THEN [t |-> t, vs |-> FALSE, raised |-> "no sheet"]
  ELSE
    LET t1 == IF r.row # <<>> THEN moveToRow(t, r.row) ELSE t
        t2 == IF r.col # "" THEN moveToCol(t1, r.col) ELSE t1
    IN IF t1.cursorRowIndex = NoIndex
       THEN [t |-> t, vs |-> FALSE, raised |-> "no row"]
       ELSE IF t2.cursorVisibleColIndex = NoIndex
       THEN [t |-> t1, vs |-> FALSE, raised |-> "no column"]
       ELSE [t |-> t2, vs |-> TRUE, raised |-> ""]

\* the row and col fields an entry may carry: none, an index that exists, an
\* index past the end, a key string or name that exists, one that does not
RowStrs ==
  {<<>>, <<str(0)>>, <<str(NRecords)>>, <<rowkey_prefix, "y">>, <<rowkey_prefix, "q">>}
ColStrs == {"", "a", "1", str(NFields), "q"}
Entries ==
  [sheet : {SheetName, "nosuch", ""}, row : RowStrs, col : ColStrs,
   longname : {"key-col", "setcol-input"}, input : {"z"}]

InitContext ==
  /\ InitReplay /\ InitSheet /\ InitRec /\ InitColorizers /\ InitMemo
  /\ \E nm \in [1..NFields -> Names], nKeys \in {0, 1} :
       live = Table([c \in 1..NFields |-> Column(nm[c], NoWidth, c <= nKeys, FALSE)],
                    [r \in 1..NRecords |->
                       [c \in 1..NFields |-> IF r = 2 /\ c = 1 THEN StrVal(<<"y">>)
                                             ELSE StrVal(<<"x">>)]])
  /\ replica = live
  /\ tableLog = <<>>
  /\ tablePc = "replay"
  /\ tablePos = 0
  /\ marked = <<>>
  /\ landed = 0

\* replayOne(r): moveToReplayContext, then exec_command on the sheet it
\* returned, or on the command log itself when the entry names no sheet.
\* key-col toggles the cursor column; setcol-input with no selected row
\* changes nothing.  The file replayed has at most MaxCmds entries.
ReplayOneEntry(r) ==
  /\ tablePos < MaxCmds
  /\ tablePos' = tablePos + 1
  /\ LET ctx == moveToReplayContext(replica, r) IN
       /\ replica' = IF ctx.vs /\ r.longname = "key-col"
                     THEN exec_command(ctx.t, r.longname, r.input)
                     ELSE ctx.t
       /\ tablePc' = IF ctx.raised # "" THEN "error" ELSE "executed"
  /\ tableLog' = <<r>>
  /\ UNCHANGED live
  /\ UNCHANGED notTable

ContextNext == \E r \in Entries : ReplayOneEntry(r)

SpecContext == InitContext /\ [][ContextNext]_vars

(***************************************************************************)
(* SpecMovement: moveToRow and moveToCol with options.replay_movement      *)
(* enabled.  The functions are defined with the parameter `vs'; the name   *)
(* `self' that their loops use is bound nowhere, so that reaching          *)
(* self.delay(0.5) raises NameError.                                       *)
(***************************************************************************)
\* one iteration of the movement loop: the index after it
stepToward(i, target) == IF target - i > 0 THEN i + 1 ELSE i - 1

\* moveToRow with replay_movement: the sheet after the call and how the call
\* ended (returned True, returned False, raised NameError)
moveToRow_movement(t, rowstr) ==
  LET rowidx == getRowIndexFromStr(t, rowstr) IN
  IF rowidx = NoIndex THEN [t |-> t, ended |-> "False", target |-> rowidx]
  ELSE IF t.cursorRowIndex = rowidx
  THEN [t |-> t, ended |-> "True", target |-> rowidx]
  ELSE [t |-> [t EXCEPT !.cursorRowIndex = stepToward(@, rowidx)],
        ended |-> "NameError", target |-> rowidx]

\* moveToCol with replay_movement
moveToCol_movement(t, colstr) ==
  LET vcolidx == moveToCol(t, colstr).cursorVisibleColIndex IN
  IF vcolidx = NoIndex THEN [t |-> t, ended |-> "False", target |-> vcolidx]
  ELSE IF t.cursorVisibleColIndex = vcolidx
  THEN [t |-> t, ended |-> "True", target |-> vcolidx]
  ELSE [t |-> [t EXCEPT !.cursorVisibleColIndex = stepToward(@, vcolidx)],
        ended |-> "NameError", target |-> vcolidx]

\* vs.moveToRow(rowstr); landed is the cursor row before the call
MoveToRowStepwise(rowstr) ==
  /\ LET res == moveToRow_movement(replica, rowstr) IN
       /\ replica' = res.t
       /\ tablePc' = res.ended
       /\ tablePos' = res.target
  /\ tableLog' = <<[op |-> "moveToRow", ref |-> rowstr]>>
  /\ landed' = replica.cursorRowIndex
  /\ UNCHANGED <<live, marked>>
  /\ UNCHANGED notKey

\* vs.moveToCol(colstr); landed is the cursor column before the call
MoveToColStepwise(colstr) ==
  /\ LET res == moveToCol_movement(replica, colstr) IN
       /\ replica' = res.t
       /\ tablePc' = res.ended
       /\ tablePos' = res.target
  /\ tableLog' = <<[op |-> "moveToCol", ref |-> <<colstr>>]>>
  /\ landed' = replica.cursorVisibleColIndex
  /\ UNCHANGED <<live, marked>>
  /\ UNCHANGED notKey

MovementNext ==
  \/ \E rowstr \in RowStrs \ {<<>>} : MoveToRowStepwise(rowstr)
  \/ \E colstr \in ColStrs \ {""} : MoveToColStepwise(colstr)

SpecMovement == InitContext /\ [][MovementNext]_vars

(***************************************************************************)
(* Properties of the replay engine                                         *)
(***************************************************************************)
Remaining(L) == Len(rows[L]) - logCursorRowIndex[L]

\* C1: with one replay, paused, and no resume or cancel under way, the
\* entries begun since the replay thread entered the paused delay() never
\* outnumber the advance signals issued since the pause (credit >= 0), and
\* when the thread waits again with no token pending they are exactly as
\* many (credit = 0): N advance signals, N further entries.
C1_AdvanceStepsExactlyN ==
  Tracked /\ pauseSeen =>
    /\ credit >= 0
    /\ \A L \in Logs : pc[L] = "acquireWait" /\ semaphore = 0 => credit = 0

\* C2: once the interface has called cancel() on a replay, that replay's
\* thread is never again let through the loop's cancellation test to run a
\* further entry.  (The entry already past the test when cancel() was
\* called is not counted.)
C2_CancelStopsReplay ==
  \A L \in Logs : cancelled[L] => ~admitted[L]

\* C3: once cancel() has been called on a replay, its thread eventually
\* returns from replay_sync.
C3_CancelEventuallyReturns ==
  \A L \in Logs : cancelled[L] ~> pc[L] = "done"

\* C4: no two replay threads are executing a command at the same time.
C4_OneReplayExecutes ==
  \A L, M \in Logs : pc[L] = "executing" /\ pc[M] = "executing" => L = M

\* C5: when replaying an entry raises or reports an escape, that step
\* clears currentReplay and ends replay_sync, and the thread never runs
\* another entry: it stays returned, its position in the log unchanged.
C5_FailureCancelsReplay ==
  [][\A L \in Logs :
       /\ failed'[L] /\ ~failed[L] => currentReplay' = None /\ pc'[L] = "done"
       /\ failed[L] => /\ pc'[L] = "done"
                       /\ logCursorRowIndex'[L] = logCursorRowIndex[L]]_vars

\* the second entry of a log failed with entries after it left unreplayed,
\* and the replay returned
C5_Witness ==
  \E L \in Logs : /\ failed[L]
                  /\ logCursorRowIndex[L] = 1
                  /\ Remaining(L) >= 2
                  /\ pc[L] = "done"
                  /\ currentReplay = None

\* C6: a replay exhausts its log: every entry replayed without error or
\* escape leaves fewer entries to replay than there were before it, so that
\* the loop of replay_sync ends after len(rows) entries.
C6_ReplayExhaustsLog ==
  [][\A L \in Logs :
       pc[L] = "executing" /\ pc'[L] = "delay" => Remaining(L)' < Remaining(L)]_vars

\* C30.  Every replay starts running, from idle: when replay_sync begins
\* and no other replay is under way, paused is False and no advance token is
\* pending, whatever was paused, advanced, cancelled, failed or completed in
\* the replays before it.
C30_ReplayStartsRunning ==
  [][\A L \in Logs :
       ReplayStart(L) /\ (\A M \in Logs \ {L} : pc[M] \in {"idle", "done"}) =>
         ~paused /\ semaphore = 0]_vars

\* C30 for the first replay of a session
C30_FirstReplayStartsRunning ==
  [][\A L \in Logs :
       ReplayStart(L) /\ (\A M \in Logs \ {L} : pc[M] = "idle") =>
         ~paused /\ semaphore = 0]_vars

\* the replay of L ran to completion: it left the loop of replay_sync at the
\* end of the log, not cancelled and with no entry failing
Completed(L) ==
  /\ pc[L] = "done"
  /\ ~failed[L] /\ ~cancelled[L]
  /\ logCursorRowIndex[L] >= Len(rows[L])

\* C32.  When a replay has run to completion, the entries of the log were
\* executed once each, in log order, whatever the interface did meanwhile
\* (drawing the log sheet, moving its cursor).
C32_EachEntryOnceInOrder ==
  Completed("file") => executed["file"] = [i \in 1..NFile |-> i]

\* C33.  After a draw, the k-th painted row was given to drawRow under its
\* own index in rows (topRowIndex+k is the index it was sliced at), so the
\* row painted under the cursor's index, the highlighted one, is
\* rows[cursorRowIndex].
C33_PaintedUnderOwnIndex ==
  lastOp = "draw" =>
    /\ \A k \in 1..Len(pre) : sheet.topRowIndex + (k - 1) = pre[k]
    /\ \A k \in 1..Len(pre) :
         sheet.topRowIndex + (k - 1) = sheet.cursorRowIndex =>
           pre[k] = sheet.cursorRowIndex

(***************************************************************************)
(* Properties of the viewport                                              *)
(***************************************************************************)

\* C8.  Whatever the row cursor was before (negative, in range, past the
\* end), after checkCursor it satisfies 0 <= cursorRowIndex < max(nRows, 1).
C8_CursorRowInBounds ==
  lastOp = "checkCursor" =>
    /\ 0 <= sheet.cursorRowIndex
    /\ sheet.cursorRowIndex < Max(sheet.nRows, 1)

\* checkCursor found the row cursor past the end of a sheet that has rows
C8_Witness ==
  /\ lastOp = "checkCursor"
  /\ sheet.nRows = MaxRows
  /\ pre[1] >= sheet.nRows
  /\ sheet.cursorRowIndex = sheet.nRows - 1

\* C9.  Whatever the column cursor was before, after checkCursor it satisfies
\* 0 <= cursorVisibleColIndex < max(nVisibleCols, 1), also when the sheet has
\* no visible column.
C9_CursorColInBounds ==
  lastOp = "checkCursor" =>
    /\ 0 <= sheet.cursorVisibleColIndex
    /\ sheet.cursorVisibleColIndex < Max(nVisibleCols(sheet), 1)

\* C10.  Every entry (x, w) of visibleColLayout has x <= windowWidth and
\* x + w <= windowWidth, and the laid-out columns stand at strictly
\* increasing x positions without overlapping.
C10_LayoutWithinWindow ==
  LET lay == sheet.visibleColLayout IN
  /\ \A k \in DOMAIN lay :
       /\ lay[k][1] <= sheet.windowWidth
       /\ lay[k][1] + lay[k][2] <= sheet.windowWidth
  /\ \A j, k \in DOMAIN lay :
       j < k => /\ lay[j][1] < lay[k][1]
                /\ lay[j][1] + lay[j][2] <= lay[k][1]

\* calcColLayout laid out two columns and clipped the second at the window's
\* edge
C10_Witness ==
  LET lay == sheet.visibleColLayout IN
  /\ lastOp = "calcColLayout"
  /\ \E j, k \in DOMAIN lay :
       /\ j < k
       /\ lay[k][1] + lay[k][2] = sheet.windowWidth
       /\ lay[k][2] < sheet.columns[visibleCols(sheet)[k + 1]].width

\* C11.  After calcColLayout every key column's visible index is a key of
\* visibleColLayout, whatever the window width, the widths, the number of
\* key columns and the left offset.
C11_KeyColsLaidOut ==
  lastOp = "calcColLayout" =>
    \A j \in 1..Len(keyCols(sheet)) : (j - 1) \in LayoutKeys(sheet)

\* C12.  checkCursor brings the cursor column into view: after checkCursor
\* (on a sheet with a visible column) the cursor column is an entry of the
\* layout that calcColLayout computes for the new left offset.
C12_CursorColInView ==
  lastOp = "checkCursor" /\ nVisibleCols(sheet) > 0 /\ sheet.raised = NoRaise =>
    \A mw \in MaxWidths(sheet) :
      sheet.cursorVisibleColIndex \in LayoutKeys(calcColLayout(sheet, mw))

\* The scenario of C12: 3 columns, 2 of them key columns, the cursor moved to
\* the third column, and a window in which rightVisibleColIndex is 1.
C12_Scenario ==
  /\ lastOp = "checkCursor"
  /\ nVisibleCols(sheet) = 3
  /\ Len(keyCols(sheet)) = 2
  /\ pre[2] = 2
  /\ sheet.rightVisibleColIndex = 1
  /\ sheet.raised = NoRaise

\* C27.  The horizontal-scroll loop of checkCursor ends without raising,
\* whatever the window width, the columns' widths, the key columns, the
\* cursor and the left offset are (so the branch for a cursor left of the
\* laid-out columns, which reads the unbound name mincolid, is not taken),
\* and leaves leftVisibleColIndex <= cursorVisibleColIndex.
C27_ScrollLoopEnds ==
  lastOp = "checkCursor" =>
    /\ sheet.raised = NoRaise
    /\ sheet.leftVisibleColIndex <= sheet.cursorVisibleColIndex

\* C27, the unbound name: checkCursor never ends with NameError
C27_BranchNotTaken ==
  lastOp = "checkCursor" => sheet.raised # "NameError"

\* C27 on a sheet that has a visible column
C27_ScrollLoopEndsWithColumns ==
  lastOp = "checkCursor" /\ nVisibleCols(sheet) > 0 =>
    /\ sheet.raised = NoRaise
    /\ sheet.leftVisibleColIndex <= sheet.cursorVisibleColIndex

\* C23.  After checkCursor, 0 <= topRowIndex <= max(nRows-1, 0), on every
\* sheet (an empty one included) and whatever topRowIndex was before.
C23_TopRowInBounds ==
  lastOp = "checkCursor" =>
    /\ 0 <= sheet.topRowIndex
    /\ sheet.topRowIndex <= Max(sheet.nRows - 1, 0)

\* C23 on a sheet that has rows and room for at least one of them
C23_TopRowInBoundsWithRows ==
  lastOp = "checkCursor" /\ sheet.nRows > 0 /\ nVisibleRows(sheet) >= 1 =>
    /\ 0 <= sheet.topRowIndex
    /\ sheet.topRowIndex <= sheet.nRows - 1

\* the row cursor and topRowIndex that the scroll test of checkCursor sees:
\* the values before the call, clamped into the rows of the sheet
C26_Clamped ==
  [cursorRowIndex |-> clampCursorRow([sheet EXCEPT !.cursorRowIndex = pre[1]]),
   topRowIndex |-> clampTopRow([sheet EXCEPT !.topRowIndex = pre[3]])]

\* C26.  After checkCursor on a sheet with a row and nVisibleRows >= 1 the
\* cursor row is one of the visible rows, topRowIndex <= cursorRowIndex <=
\* topRowIndex + nVisibleRows - 1; if the cursor was above the visible rows,
\* topRowIndex is now the cursor row, and if it was below them, the cursor
\* row is now the last visible row, topRowIndex + nVisibleRows - 1.
C26_CursorRowInView ==
  lastOp = "checkCursor" /\ sheet.nRows >= 1 /\ nVisibleRows(sheet) >= 1 =>
    /\ sheet.topRowIndex <= sheet.cursorRowIndex
    /\ sheet.cursorRowIndex <= sheet.topRowIndex + nVisibleRows(sheet) - 1
    /\ C26_Clamped.cursorRowIndex < C26_Clamped.topRowIndex =>
         sheet.topRowIndex = sheet.cursorRowIndex
    /\ C26_Clamped.cursorRowIndex > C26_Clamped.topRowIndex + nVisibleRows(sheet) - 1 =>
         sheet.cursorRowIndex = sheet.topRowIndex + nVisibleRows(sheet) - 1

\* checkCursor found the cursor below the visible rows and scrolled down
C26_Witness ==
  /\ lastOp = "checkCursor"
  /\ sheet.nRows = MaxRows
  /\ nVisibleRows(sheet) = 1
  /\ pre[3] >= 0
  /\ pre[1] > pre[3] + nVisibleRows(sheet) - 1
  /\ sheet.topRowIndex > pre[3]
  /\ sheet.cursorRowIndex = sheet.topRowIndex

(***************************************************************************)
(* SpecDesign: the columns of a sheet and its copy.  Columns are objects:  *)
(* `obj' is the identity of a column, and copy() of a column of a sheet    *)
(* with n columns is a new object with the same attributes, numbered       *)
(* obj + n.                                                                *)
(***************************************************************************)
ColumnObject(c, obj) ==
  [name |-> c.name, width |-> c.width, keycol |-> c.keycol, hidden |-> c.hidden,
   obj |-> obj]

setKeys(columns, S) ==
  [i \in 1..Len(columns) |->
     IF i \in S THEN [columns[i] EXCEPT !.keycol = TRUE] ELSE columns[i]]
unsetKeys(columns, S) ==
  [i \in 1..Len(columns) |->
     IF i \in S THEN [columns[i] EXCEPT !.keycol = FALSE] ELSE columns[i]]
toggleKeys(columns, S) ==
  [i \in 1..Len(columns) |->
     IF i \in S THEN [columns[i] EXCEPT !.keycol = ~@] ELSE columns[i]]

\* copy(c) for a column c of a sheet with n columns
copy_column(c, n) == [c EXCEPT !.obj = @ + n]

\* BaseSheet.__copy__: a new sheet object with the attributes of the original
BaseSheet_copy(s) == s

\* Sheet.__copy__
Sheet_copy(s) ==
  LET n == Len(s.columns)
      kc == keyCols(s)
      rest == SelectIdx(n, {i \in 1..n : ~InSeq(i, kc)})
      first == setKeys([j \in 1..Len(kc) |-> copy_column(s.columns[kc[j]], n)],
                       1..Len(kc))
      second == [j \in 1..Len(rest) |-> copy_column(s.columns[rest[j]], n)]
  IN [BaseSheet_copy(s) EXCEPT !.nRows = 0, !.columns = first \o second,
                               !.topRowIndex = 0, !.cursorRowIndex = 0]

InitDesign ==
  /\ InitReplay /\ InitTable /\ InitRec /\ InitColorizers /\ InitMemo
  /\ \E nKeys \in 0..NCols, n \in 0..MaxRows :
       sheet = NewSheet([i \in 1..NCols |->
                           ColumnObject(Column("", MaxWidth, i <= nKeys, FALSE), i)],
                        n, MaxWin, MaxHeight, DefaultWidth)
  /\ lastOp = ""
  /\ pre = NoPre

\* key-col-on, key-col-off, key-col on a set of columns; the caches of
\* visibleCols and keyCols are cleared
SetKeys(S) ==
  /\ lastOp # "copy"
  /\ sheet' = [sheet EXCEPT !.columns = setKeys(@, S)]
  /\ lastOp' = "setKeys"
  /\ UNCHANGED <<pre, ret>>
  /\ UNCHANGED notDesign

UnsetKeys(S) ==
  /\ lastOp # "copy"
  /\ sheet' = [sheet EXCEPT !.columns = unsetKeys(@, S)]
  /\ lastOp' = "unsetKeys"
  /\ UNCHANGED <<pre, ret>>
  /\ UNCHANGED notDesign

ToggleKeys(S) ==
  /\ lastOp # "copy"
  /\ sheet' = [sheet EXCEPT !.columns = toggleKeys(@, S)]
  /\ lastOp' = "toggleKeys"
  /\ UNCHANGED <<pre, ret>>
  /\ UNCHANGED notDesign

\* a column is hidden or shown again
Hide(i, hide) ==
  /\ lastOp # "copy"
  /\ sheet.columns[i].hidden # hide
  /\ sheet' = [sheet EXCEPT !.columns[i].hidden = hide]
  /\ lastOp' = "hide"
  /\ UNCHANGED <<pre, ret>>
  /\ UNCHANGED notDesign

\* the cursor and the scroll offsets of the sheet, as commands and draw leave
\* them
Scroll(row, top, col, left) ==
  /\ lastOp # "copy"
  /\ <<row, top, col, left>> #
       <<sheet.cursorRowIndex, sheet.topRowIndex,
         sheet.cursorVisibleColIndex, sheet.leftVisibleColIndex>>
  /\ top <= row
  /\ left <= col
  /\ sheet' = [sheet EXCEPT !.cursorRowIndex = row, !.topRowIndex = top,
                            !.cursorVisibleColIndex = col,
                            !.leftVisibleColIndex = left]
  /\ lastOp' = "scroll"
  /\ UNCHANGED <<pre, ret>>
  /\ UNCHANGED notDesign

\* copy(sheet)
Copy ==
  /\ lastOp # "copy"
  /\ ret' = Sheet_copy(sheet)
  /\ lastOp' = "copy"
  /\ UNCHANGED <<sheet, pre>>
  /\ UNCHANGED notDesign

DesignNext ==
  \/ \E S \in SUBSET (1..NCols) : SetKeys(S)
  \/ \E S \in SUBSET (1..NCols) : UnsetKeys(S)
  \/ \E S \in SUBSET (1..NCols) : ToggleKeys(S)
  \/ \E i \in 1..NCols, hide \in BOOLEAN : Hide(i, hide)
  \/ \E row \in 0..Max(sheet.nRows - 1, 0), top \in 0..Max(sheet.nRows - 1, 0),
        col \in 0..Max(nVisibleCols(sheet) - 1, 0),
        left \in 0..Max(nVisibleCols(sheet) - 1, 0) : Scroll(row, top, col, left)
  \/ Copy

SpecDesign == InitDesign /\ [][DesignNext]_vars

(***************************************************************************)
(* SpecColor: getColorizers and colorize.  A colorizer is the tuple of its  *)
(* precedence, its coloropt ("" when it declares no style) and its func;   *)
(* a func is an object (id) together with what it does when colorize calls *)
(* it for the cell at hand (r): it raises, or returns "" (falsy), True or   *)
(* a style.  Two colorizers are equal when the tuples are.                 *)
(***************************************************************************)
MaxColorizers == 3

Precedences == {1, 2}
Funcs ==
  { [coloropt |-> "color_key_col", r |-> "True"],
    [coloropt |-> "color_key_col", r |-> ""],
    [coloropt |-> "color_key_col", r |-> "raise"],
    [coloropt |-> "", r |-> "color_note"] }

\* the members of a sequence
Range(sq) == {sq[i] : i \in 1..Len(sq)}

\* sorted(it, key=lambda x: x.precedence, reverse=True): the sort is stable
RECURSIVE sorted(_)
sorted(it) ==
  IF it = <<>> THEN <<>>
  ELSE LET m == MaxOf({it[i].precedence : i \in 1..Len(it)})
           k == MinOf({i \in 1..Len(it) : it[i].precedence = m})
       IN <<it[k]>> \o sorted(SubSeq(it, 1, k - 1) \o SubSeq(it, k + 1, Len(it)))

\* the orders in which a set can be iterated
Iterations(S) ==
  {it \in [1..Cardinality(S) -> S] : \A i, j \in 1..Cardinality(S) :
                                        i # j => it[i] # it[j]}

\* what getColorizers may return when it is computed: the colorizers are
\* added to a set, and the set is sorted
getColorizers(declared) == {sorted(it) : it \in Iterations(Range(declared))}

\* the loop of colorize over the colorizers
colorstack(order) ==
  LET F[i \in 0..Len(order)] ==
        IF i = 0 THEN [done |-> TRUE, colorstack |-> <<>>, reported |-> 0]
        ELSE IF order[i].func.r = "raise"
        THEN [F[i - 1] EXCEPT !.reported = @ + 1]
        ELSE IF order[i].func.r # ""
        THEN [F[i - 1] EXCEPT !.colorstack =
                Append(@, IF order[i].coloropt # "" THEN order[i].coloropt
                          ELSE order[i].func.r)]
        ELSE F[i - 1]
  IN F[Len(order)]

\* colorize whose first failing predicate ends the loop
colorize_AbortOnRaise(order) ==
  LET raising == {i \in 1..Len(order) : order[i].func.r = "raise"}
  IN IF raising = {} THEN colorstack(order)
     ELSE [colorstack(SubSeq(order, 1, MinOf(raising) - 1)) EXCEPT !.reported = 1]

\* colorize, given what getColorizers returned
colorize(order) == colorstack(order)

InitColor ==
  /\ InitReplay /\ InitSheet /\ InitTable /\ InitRec /\ InitMemo
  /\ \E n \in 1..MaxColorizers, prec \in [1..MaxColorizers -> Precedences],
        f \in [1..MaxColorizers -> Funcs], nClasses \in {1, 2} :
       /\ \A i \in (n + 1)..MaxColorizers :
            prec[i] = 1 /\ f[i] = [coloropt |-> "", r |-> "color_note"]
       /\ LET list == [i \in 1..n |->
                         [precedence |-> prec[i], coloropt |-> f[i].coloropt,
                          func |-> [id |-> i, r |-> f[i].r]]]
          IN colorizers = IF nClasses = 1 THEN list ELSE list \o list
  /\ cache = NoCache
  /\ colorized = NotColorized

\* getColorizers: computed on the first call, answered from the cache after
GetColorizers ==
  /\ ~cache.hit
  /\ \E order \in getColorizers(colorizers) :
       cache' = [hit |-> TRUE, value |-> order]
  /\ UNCHANGED <<colorizers, colorized>>
  /\ UNCHANGED notColor

\* colorize(col, row, value), which calls getColorizers
Colorize ==
  /\ \E order \in (IF cache.hit THEN {cache.value}
                    ELSE getColorizers(colorizers)) :
       /\ cache' = [hit |-> TRUE, value |-> order]
       /\ colorized' = colorize(order)
  /\ UNCHANGED colorizers
  /\ UNCHANGED notColor

ColorNext ==
  \/ GetColorizers
  \/ Colorize

SpecColor == InitColor /\ [][ColorNext]_vars

(***************************************************************************)
(* SpecPage: the horizontal viewport with pageLeft.                        *)
(***************************************************************************)
\* pageLeft, first loop: cursor and left offset move left together until the
\* right-most column is the target or the left offset is the first column
\* that is not a key column
RECURSIVE pageLeftShift(_, _, _, _)
pageLeftShift(s, mw, targetIdx, firstNonKeyVisibleColIndex) ==
  IF s.rightVisibleColIndex # targetIdx
     /\ s.leftVisibleColIndex > firstNonKeyVisibleColIndex
  THEN pageLeftShift(
         calcColLayout([s EXCEPT !.cursorVisibleColIndex = @ - 1,
                                 !.leftVisibleColIndex = @ - 1], mw),
         mw, targetIdx, firstNonKeyVisibleColIndex)
  ELSE s

\* pageLeft, second loop: further left while the right-most column keeps its
\* full width
RECURSIVE pageLeftSqueeze(_, _)
pageLeftSqueeze(s, mw) ==
  IF s.leftVisibleColIndex > 0
  THEN
    LET rightcol == s.columns[visibleCols(s)[s.rightVisibleColIndex + 1]] IN
    IF s.rightVisibleColIndex \notin LayoutKeys(s)
    THEN [s EXCEPT !.raised = "KeyError"]
    ELSE IF rightcol.width = NoWidth
    THEN [s EXCEPT !.raised = "TypeError"]     \* None > int
    ELSE IF rightcol.width > s.visibleColLayout[s.rightVisibleColIndex][2]
    THEN [s EXCEPT !.cursorVisibleColIndex = @ + 1, !.leftVisibleColIndex = @ + 1]
    ELSE pageLeftSqueeze(
           calcColLayout([s EXCEPT !.cursorVisibleColIndex = @ - 1,
                                   !.leftVisibleColIndex = @ - 1], mw), mw)
  ELSE s

pageLeft(s0, mw) ==
  LET s == [s0 EXCEPT !.raised = NoRaise] IN
  IF Len(keyCols(s)) = nVisibleCols(s)
  THEN [s EXCEPT !.raised = "IndexError"]      \* nonKeyVisibleCols[0]
  ELSE
    LET s1 == pageLeftShift(s, mw, s.leftVisibleColIndex, Len(keyCols(s))) IN
    IF s1.rightVisibleColIndex = nVisibleCols(s1) - 1
    THEN pageLeftSqueeze(s1, mw)
    ELSE s1

\* the commands run while the cursor is at most one step out of range
ColInRange == sheet.cursorVisibleColIndex \in (0 - 1)..NCols

\* pageLeft() on the sheet as it is
PageLeft ==
  /\ ColInRange
  /\ \E mw \in MaxWidths(sheet) : sheet' = pageLeft(sheet, mw)
  /\ lastOp' = "pageLeft"
  /\ pre' = <<sheet.cursorVisibleColIndex, sheet.leftVisibleColIndex>>
  /\ UNCHANGED notView

\* go-rightmost: leftVisibleColIndex = len(visibleCols)-1; pageLeft();
\* cursorVisibleColIndex = len(visibleCols)-1
GoRightmost ==
  /\ ColInRange
  /\ \E mw \in MaxWidths(sheet) :
       LET s1 == pageLeft([sheet EXCEPT !.leftVisibleColIndex =
                                           nVisibleCols(sheet) - 1], mw)
       IN sheet' = IF s1.raised # NoRaise THEN s1
                   ELSE [s1 EXCEPT !.cursorVisibleColIndex = nVisibleCols(sheet) - 1]
  /\ lastOp' = "go-rightmost"
  /\ pre' = NoPre
  /\ UNCHANGED notView

PageNext ==
  \/ \E n \in {-1, 1} : GoRight(n)
  \/ GoLeftmost
  \/ GoRightmost
  \/ CalcColLayout
  \/ CheckCursor
  \/ PageLeft

SpecPage == InitCols /\ [][PageNext]_vars

\* pageLeft returned without raising
C28_PageLeftDone == lastOp = "pageLeft" /\ sheet.raised = NoRaise

\* C28.  pageLeft moves cursorVisibleColIndex and leftVisibleColIndex left by
\* the same number of columns, zero or more: their difference is what it
\* was, and neither index is larger than it was.
C28_PageLeftLockStep ==
  C28_PageLeftDone =>
    /\ sheet.cursorVisibleColIndex - sheet.leftVisibleColIndex = pre[1] - pre[2]
    /\ sheet.cursorVisibleColIndex <= pre[1]
    /\ sheet.leftVisibleColIndex <= pre[2]

\* the lock-step half of C28: the difference of the two indices is kept
C28_DifferenceKept ==
  C28_PageLeftDone =>
    sheet.cursorVisibleColIndex - sheet.leftVisibleColIndex = pre[1] - pre[2]

\* C22.  checkCursor, calcColLayout and pageLeft do not raise on a sheet
\* without rows or without visible columns, whatever the cursor and the
\* scroll offsets.
C22_NoRaiseWhenEmpty ==
  /\ lastOp \in {"checkCursor", "calcColLayout", "pageLeft"}
  /\ sheet.nRows = 0 \/ nVisibleCols(sheet) = 0
  => sheet.raised = NoRaise

\* C22 for checkCursor and calcColLayout on a sheet that has visible columns
C22_NoRaiseWithoutRows ==
  /\ lastOp \in {"checkCursor", "calcColLayout"}
  /\ sheet.nRows = 0 /\ nVisibleCols(sheet) > 0
  => sheet.raised = NoRaise

(***************************************************************************)
(* SpecCache: the memoized properties.  keyCols, visibleCols, nHeaderRows   *)
(* and getColorizers are wrapped in functools.lru_cache: a read answers    *)
(* from the cache when the cache holds a value, and computes and stores    *)
(* the value otherwise.  A computation reads the other properties through  *)
(* their caches.                                                           *)
(***************************************************************************)
Hit(v) == [hit |-> TRUE, value |-> v]

\* a read of keyCols: what it returns and the caches after it
cached_keyCols(s, m) ==
  IF m.keyCols.hit THEN [value |-> m.keyCols.value, memo |-> m]
  ELSE [value |-> keyCols(s), memo |-> [m EXCEPT !.keyCols = Hit(keyCols(s))]]

\* a read of visibleCols
cached_visibleCols(s, m) ==
  IF m.visibleCols.hit THEN [value |-> m.visibleCols.value, memo |-> m]
  ELSE LET k == cached_keyCols(s, m)
           v == k.value \o
                SelectIdx(Len(s.columns),
                          {i \in 1..Len(s.columns) :
                             ~s.columns[i].hidden /\ ~s.columns[i].keycol})
       IN [value |-> v, memo |-> [k.memo EXCEPT !.visibleCols = Hit(v)]]

\* a read of nHeaderRows (the names of the columns have one line)
cached_nHeaderRows(s, m) ==
  IF m.nHeaderRows.hit THEN [value |-> m.nHeaderRows.value, memo |-> m]
  ELSE LET vcols == cached_visibleCols(s, m)
           v == IF Len(vcols.value) > 0 THEN 1 ELSE 0
       IN [value |-> v, memo |-> [vcols.memo EXCEPT !.nHeaderRows = Hit(v)]]

\* addColumn(col, index): the column inserted in front of columns[index]
addColumn(columns, col, index) ==
  SubSeq(columns, 1, index) \o <<col>> \o SubSeq(columns, index + 1, Len(columns))

InitCache ==
  /\ InitReplay /\ InitTable /\ InitRec /\ InitColorizers /\ InitMemo
  /\ \E nKeys \in 0..(NCols - 1) :
       sheet = NewSheet([i \in 1..(NCols - 1) |->
                           Column("", MaxWidth, i <= nKeys, FALSE)],
                        0, MaxWin, MaxHeight, DefaultWidth)
  /\ lastOp = ""
  /\ pre = NoPre

\* addColumn: the cache of visibleCols is cleared
AddColumn(index, keycol) ==
  /\ Len(sheet.columns) < NCols
  /\ sheet' = [sheet EXCEPT !.columns =
                 addColumn(@, Column("", MaxWidth, keycol, FALSE), index)]
  /\ memo' = [memo EXCEPT !.visibleCols = Miss]
  /\ lastOp' = "addColumn"
  /\ UNCHANGED <<pre, read, colorVars>>
  /\ UNCHANGED notMemo

\* addColorizer: self.colorizers.append(c)
AddColorizer(c) ==
  /\ Len(colorizers) < MaxColorizers - 1
  /\ colorizers' = Append(colorizers, c)
  /\ lastOp' = "addColorizer"
  /\ UNCHANGED <<sheet, pre, cache, colorized, memoVars>>
  /\ UNCHANGED notMemo

ReadKeyCols ==
  /\ LET res == cached_keyCols(sheet, memo) IN
       /\ memo' = res.memo
       /\ read' = [what |-> "keyCols", value |-> res.value]
  /\ lastOp' = "read"
  /\ UNCHANGED <<sheet, pre, colorVars>>
  /\ UNCHANGED notMemo

ReadVisibleCols ==
  /\ LET res == cached_visibleCols(sheet, memo) IN
       /\ memo' = res.memo
       /\ read' = [what |-> "visibleCols", value |-> res.value]
  /\ lastOp' = "read"
  /\ UNCHANGED <<sheet, pre, colorVars>>
  /\ UNCHANGED notMemo

ReadNHeaderRows ==
  /\ LET res == cached_nHeaderRows(sheet, memo) IN
       /\ memo' = res.memo
       /\ read' = [what |-> "nHeaderRows", value |-> res.value]
  /\ lastOp' = "read"
  /\ UNCHANGED <<sheet, pre, colorVars>>
  /\ UNCHANGED notMemo

ReadColorizers ==
  /\ \E order \in (IF cache.hit THEN {cache.value}
                    ELSE getColorizers(colorizers)) :
       /\ cache' = Hit(order)
       /\ read' = [what |-> "getColorizers", value |-> order]
  /\ lastOp' = "read"
  /\ UNCHANGED <<sheet, pre, colorizers, colorized, memo>>
  /\ UNCHANGED notMemo

\* draw: vd.clear_caches()
ClearCaches ==
  /\ memo' = [keyCols |-> Miss, visibleCols |-> Miss, nHeaderRows |-> Miss]
  /\ cache' = NoCache
  /\ lastOp' = "draw"
  /\ UNCHANGED <<sheet, pre, colorizers, colorized, read>>
  /\ UNCHANGED notMemo

CacheNext ==
  \/ \E keycol \in BOOLEAN : AddColumn(Len(sheet.columns), keycol)
  \/ \E i \in 1..Len(sheet.columns) : SetKeys({i})
  \/ \E i \in 1..Len(sheet.columns) : UnsetKeys({i})
  \/ \E i \in 1..Len(sheet.columns) : ToggleKeys({i})
  \/ AddColorizer([precedence |-> 1, coloropt |-> "color_key_col",
                   func |-> [id |-> Len(colorizers) + 1, r |-> "True"]])
  \/ ReadKeyCols
  \/ ReadVisibleCols
  \/ ReadNHeaderRows
  \/ ReadColorizers
  \/ ClearCaches

SpecCache == InitCache /\ [][CacheNext]_vars

\* C21.  What a read of keyCols, visibleCols, nHeaderRows or getColorizers
\* returns is never stale: it is what the property gives for the columns,
\* key flags and colorizers of the sheet at the time of the read, whether or
\* not a draw came between the change and the read.
C21_ReadsNeverStale ==
  lastOp = "read" =>
    /\ read.what = "keyCols" => read.value = keyCols(sheet)
    /\ read.what = "visibleCols" => read.value = visibleCols(sheet)
    /\ read.what = "nHeaderRows" => read.value = nHeaderRows(sheet)
    /\ read.what = "getColorizers" => read.value \in getColorizers(colorizers)

(***************************************************************************)
(* SpecRec: the recorder.  exec_command calls beforeExecHook of vd.cmdlog   *)
(* when a command starts and afterExecSheet when it ends; a command may     *)
(* start while another is still running.  A longname is the sequence of its *)
(* pieces, so that startswith is a comparison of leading pieces.  An entry  *)
(* carries the number of the execution it was made for (history).          *)
(***************************************************************************)
MaxDepth == 2
MaxExec == 2
MaxUndo == 1

startswith(st, n) == Len(n) <= Len(st) /\ SubSeq(st, 1, Len(n)) = n

nonLogged ==
  { <<w>> : w \in {"forget", "exec-longname", "undo", "redo", "quit", "show",
                   "error", "statuses", "options", "threads", "cmdlog", "jump",
                   "replay", "stop", "pause", "cancel", "advance", "save-cmdlog",
                   "go-", "search", "scroll", "prev", "next", "page", "start",
                   "end", "zoom", "resize", "visibility", "suspend", "redraw",
                   "no-op", "help", "syscopy", "syspaste", "sysopen", "profile",
                   "toggle"} } \cup {<<"error", "s">>}

isLoggableCommand(longname) == \A n \in nonLogged : ~startswith(longname, n)

\* the fields of a CommandLogRow, a list with named fields; an entry of the
\* model keeps those the recorder acts on (and exec, a history field)
rowtype_fields ==
  <<"sheet", "col", "row", "longname", "input", "keystrokes", "comment", "undofuncs">>

\* ' [%s]' % err, as characters
bracketed(err) == <<" ", "[">> \o err \o <<"]">>

\* vd.activeCommand[-1] += ' [%s]' % err: index -1 is the last field of the
\* row, and += on a list extends it with the characters of the string
appendErr(row, err) ==
  LET last == rowtype_fields[Len(rowtype_fields)] IN
  [row EXCEPT ![last] = @ \o bracketed(err)]

\* an afterExecSheet that leaves vd.activeCommand set after recording it
CommandLog_afterExecSheet_KeepsActive(rec, sh, escaped, err) ==
  IF rec.activeCommand = NoCommand THEN rec
  ELSE
    LET row == IF err # <<>> THEN appendErr(rec.activeCommand, err)
               ELSE rec.activeCommand
    IN IF ~escaped /\ isLoggableCommand(row.longname) /\ "cmdlog" # sh
       THEN [rec EXCEPT !.rows = Append(@, row),
                        !.cmdlog_sheet[sh] = Append(@, row),
                        !.activeCommand = row]
       ELSE [rec EXCEPT !.activeCommand = row]

\* afterExecSheet of vd.cmdlog (self is the sheet "cmdlog")
CommandLog_afterExecSheet(rec, sh, escaped, err) ==
  IF rec.activeCommand = NoCommand THEN rec
  ELSE
    LET row == IF err # <<>> THEN appendErr(rec.activeCommand, err)
               ELSE rec.activeCommand
    IN IF ~escaped /\ isLoggableCommand(row.longname) /\ "cmdlog" # sh
       THEN [rec EXCEPT !.rows = Append(@, row),
                        !.cmdlog_sheet[sh] = Append(@, row),
                        !.activeCommand = NoCommand]
       ELSE [rec EXCEPT !.activeCommand = NoCommand]

helpstr == <<"h">>           \* cmd.helpstr, the comment an entry starts with

\* beforeExecHook of vd.cmdlog: a command still open is closed first
CommandLog_beforeExecHook(rec, sh, longname, exec) ==
  LET closed == IF rec.activeCommand # NoCommand
                THEN CommandLog_afterExecSheet(rec, sh, FALSE, <<>>)
                ELSE rec
  IN [closed EXCEPT !.activeCommand =
        [sheet |-> sh, longname |-> longname, comment |-> helpstr,
         undofuncs |-> <<>>, exec |-> exec]]

Longnames == {<<"edit-", "cell">>, <<"go-", "down">>, <<"end", "ow">>}
Errs == {<<>>, <<"E">>}      \* err of exec_command: '' or the text of the exception

\* exec_command on sheet sh starts: beforeExecHook
ExecBegin(sh, longname) ==
  /\ Len(running) < MaxDepth
  /\ nExec < MaxExec
  /\ nExec' = nExec + 1
  /\ recorder' = CommandLog_beforeExecHook(recorder, sh, longname, nExec')
  /\ running' = Append(running, [sheet |-> sh, exec |-> nExec'])
  /\ UNCHANGED escapedExecs
  /\ UNCHANGED notRec

\* the command that is executing pushes an undo callback onto its entry
AddUndo ==
  /\ running # <<>>
  /\ recorder.activeCommand # NoCommand
  /\ Len(recorder.activeCommand.undofuncs) < MaxUndo
  /\ recorder' = [recorder EXCEPT !.activeCommand.undofuncs = Append(@, "undo")]
  /\ UNCHANGED <<running, escapedExecs, nExec>>
  /\ UNCHANGED notRec

\* the innermost exec_command ends, escaped or not, with or without an
\* error: afterExecSheet
ExecEnd(escaped, err) ==
  /\ running # <<>>
  /\ LET top == running[Len(running)] IN
       /\ recorder' = CommandLog_afterExecSheet(recorder, top.sheet, escaped, err)
       /\ escapedExecs' = IF escaped THEN escapedExecs \cup {top.exec}
                          ELSE escapedExecs
  /\ running' = SubSeq(running, 1, Len(running) - 1)
  /\ UNCHANGED nExec
  /\ UNCHANGED notRec

RecNext ==
  \/ \E sh \in RecSheets, longname \in Longnames : ExecBegin(sh, longname)
  \/ \E escaped \in BOOLEAN, err \in Errs : ExecEnd(escaped, err)
  \/ AddUndo

InitRecorder ==
  InitRec /\ InitReplay /\ InitSheet /\ InitTable /\ InitColorizers /\ InitMemo

SpecRec == InitRecorder /\ [][RecNext]_vars

\* every entry in the global log or in a sheet's log
Logged ==
  {recorder.rows[i] : i \in 1..Len(recorder.rows)} \cup
  UNION {{recorder.cmdlog_sheet[sh][i] : i \in 1..Len(recorder.cmdlog_sheet[sh])} :
           sh \in RecSheets}

InLog(e, log) == \E i \in 1..Len(log) : log[i] = e

\* C14.  No entry is in the global log or in a sheet's log for an execution
\* of a command that ended escaped, whatever the sequence of commands,
\* commands started while another is still running included.
C14_EscapedNeverLogged ==
  \A e \in Logged : e.exec \notin escapedExecs

\* C15.  The longname of every logged entry starts with none of the
\* non-logged prefixes, and no logged entry is of a command whose acting
\* sheet is the recording log sheet itself.
C15_OnlyLoggableLogged ==
  \A e \in Logged : isLoggableCommand(e.longname) /\ e.sheet # "cmdlog"

\* the first half of C15 alone
C15_NoNonLoggedPrefix ==
  \A e \in Logged : isLoggableCommand(e.longname)

\* C16.  A logged entry is in the global log and in the log of the sheet
\* named in it, both or neither, and in the log of no other sheet.
C16_GlobalAndOwnSheetLog ==
  \A e \in Logged :
    /\ InLog(e, recorder.rows)
    /\ \A sh \in RecSheets : InLog(e, recorder.cmdlog_sheet[sh]) <=> sh = e.sheet

\* C31.  Every execution of a command has at most one entry in the global
\* log and the entries are in the order in which their commands began (the
\* execution numbers of the global log increase strictly), also when a
\* command starts while another is still open; and when afterExecSheet has
\* returned, no command is open.
C31_OneEntryInOrder ==
  [][/\ \A i, j \in 1..Len(recorder'.rows) :
          i < j => recorder'.rows[i].exec < recorder'.rows[j].exec
     /\ (\E escaped \in BOOLEAN, err \in Errs : ExecEnd(escaped, err)) =>
          recorder'.activeCommand = NoCommand]_vars

\* a command started while another was open: the open one was logged first,
\* the inner one after it, and the outer command is still running
C31_Witness ==
  /\ Len(running) = 1
  /\ recorder.activeCommand = NoCommand
  /\ \E i, j \in 1..Len(recorder.rows) :
       /\ i < j
       /\ recorder.rows[i].exec = running[1].exec
       /\ recorder.rows[j].exec > running[1].exec

\* C34.  When the command that is executing ends with error text,
\* afterExecSheet appends ' [err]' to the comment of its entry and leaves the
\* entry's undofuncs as they were; so every undo list in the log holds
\* nothing but undo callbacks the command pushed.
C34_ErrorGoesToComment ==
  [][\A escaped \in BOOLEAN, err \in Errs \ {<<>>} :
       ExecEnd(escaped, err) /\ recorder.activeCommand # NoCommand
         /\ Len(recorder'.rows) > Len(recorder.rows) =>
       LET old == recorder.activeCommand
           new == recorder'.rows[Len(recorder'.rows)]
       IN /\ new.comment = old.comment \o bracketed(err)
          /\ new.undofuncs = old.undofuncs
          /\ \A i \in 1..Len(new.undofuncs) : new.undofuncs[i] = "undo"]_vars


C18_ColumnsCopied ==
  lastOp = "copy" =>
    LET n == Len(sheet.columns)
        kc == keyCols(sheet)
        rest == SelectIdx(n, {i \in 1..n : ~InSeq(i, kc)})
    IN /\ ret.nRows = 0
       /\ Len(ret.columns) = n
       /\ \A i, j \in 1..n : ret.columns[j].obj # sheet.columns[i].obj
       /\ \A j \in 1..Len(kc) :
            /\ ret.columns[j] =
                 [sheet.columns[kc[j]] EXCEPT !.obj = ret.columns[j].obj]
            /\ ret.columns[j].keycol
       /\ \A j \in 1..Len(rest) :
            ret.columns[Len(kc) + j] =
              [sheet.columns[rest[j]] EXCEPT !.obj = ret.columns[Len(kc) + j].obj]

\* C18.  A copy of a sheet has no rows, fresh copies of the original's key
\* columns (flagged as key) followed by fresh copies of its other columns,
\* the same number of columns, no column object of the original, and its
\* cursorRowIndex, topRowIndex, cursorVisibleColIndex and leftVisibleColIndex
\* are all 0.
C18_CopyResetsDesign ==
  lastOp = "copy" =>
    /\ C18_ColumnsCopied
    /\ ret.cursorRowIndex = 0 /\ ret.topRowIndex = 0
    /\ ret.cursorVisibleColIndex = 0 /\ ret.leftVisibleColIndex = 0

\* the colorizers getColorizers comes across, each once, in the order in
\* which it comes across them
Declared ==
  LET F[i \in 0..Len(colorizers)] ==
        IF i = 0 THEN <<>>
        ELSE IF colorizers[i] \in Range(F[i - 1]) THEN F[i - 1]
        ELSE Append(F[i - 1], colorizers[i])
  IN F[Len(colorizers)]

\* what getColorizers returned holds exactly the declared colorizers, each
\* once, by precedence descending
C19_DeclaredOnceByPrecedence ==
  cache.hit =>
    /\ Range(cache.value) = Range(colorizers)
    /\ Len(cache.value) = Cardinality(Range(colorizers))
    /\ \A i, j \in 1..Len(cache.value) :
         i < j => cache.value[i].precedence >= cache.value[j].precedence

\* C19.  getColorizers returns exactly the colorizers declared on the sheet
\* and its ancestor classes, each once, by precedence descending, and
\* colorizers of equal precedence in their declaration order.
C19_DeclarationOrderKept ==
  cache.hit =>
    /\ C19_DeclaredOnceByPrecedence
    /\ \A i, j \in 1..Len(cache.value) :
         i < j /\ cache.value[i].precedence = cache.value[j].precedence =>
           \E a, b \in 1..Len(Declared) :
             a < b /\ Declared[a] = cache.value[i] /\ Declared[b] = cache.value[j]

\* C20.  A colorizer whose predicate raises is reported and counts as no
\* match: colorize returns, having gone through the colorizers by precedence
\* descending, with the style of every other colorizer whose predicate is
\* truthy (its coloropt, or what the predicate returned when it declares
\* none), in that order, and with one report for every predicate that raised.
C20_RaisingPredicateIsNoMatch ==
  colorized.done =>
    LET order == cache.value
        match == SelectIdx(Len(order), {i \in 1..Len(order) :
                                          order[i].func.r \notin {"raise", ""}})
    IN /\ \A i, j \in 1..Len(order) :
            i < j => order[i].precedence >= order[j].precedence
       /\ colorized.reported =
            Cardinality({i \in 1..Len(order) : order[i].func.r = "raise"})
       /\ Len(colorized.colorstack) = Len(match)
       /\ \A j \in 1..Len(match) :
            colorized.colorstack[j] =
              IF order[match[j]].coloropt # "" THEN order[match[j]].coloropt
              ELSE order[match[j]].func.r

\* colorize went past a predicate that raised, to a colorizer that declares a
\* style and to one that declares none
C20_Witness ==
  /\ colorized.done
  /\ \E i, j, k \in 1..Len(cache.value) :
       /\ i < j /\ i < k
       /\ cache.value[i].func.r = "raise"
       /\ cache.value[j].func.r = "True"
       /\ cache.value[k].func.r = "color_note"
  /\ Len(colorized.colorstack) >= 2

\* C13.  In a sheet with at least one key column and pairwise-distinct row
\* keys, a command that mentions cursorRow is logged with the key string of
\* the cursor row (prefix, then the comma-joined key values) and not its
\* index, and after any reordering of the rows moveToRow on that string puts
\* the cursor on the same logical row.
C13_KeyStringFindsRow ==
  /\ \A i \in 1..Len(tableLog) : tableLog[i].row = keystr(marked[i])
  /\ landed # 0 =>
       /\ live.cursorRowIndex # NoIndex
       /\ rowkey(live, live.cursorRowIndex + 1) = marked[landed]

(***************************************************************************)
(* Properties of recording and replaying                                   *)
(***************************************************************************)

\* C7.  Round trip: when the log recorded from a live sequence of
\* data-mutating commands (with unlogged cursor moves between them) has been
\* replayed on a copy of the original input, the copy has the same rows and
\* columns as the live sheet.
C7_RoundTrip ==
  tablePc = "done" =>
    /\ replica.cells = live.cells
    /\ replica.columns = live.columns

\* C24.  replayOne executes the command of an entry that names a sheet only
\* when that sheet was found and the entry's row and col fields put the
\* cursor on an existing row (0 <= cursorRowIndex <= nRows-1) and an existing
\* visible column; an entry whose command was not executed failed with an
\* error.
C24_CommandOnlyInContext ==
  tableLog # <<>> /\ tableLog[1].sheet # "" =>
    IF tablePc = "executed"
    THEN /\ tableLog[1].sheet = SheetName
         /\ tableLog[1].row # <<>> =>
              replica.cursorRowIndex \in 0..(Len(replica.cells) - 1)
         /\ tableLog[1].col # "" =>
              replica.cursorVisibleColIndex \in 0..(nVisibleCols(replica) - 1)
    ELSE tablePc = "error"

\* C24 for the sheet and for references that are not numerals
C24_UnknownNameFails ==
  tableLog # <<>> /\ tablePc = "executed" /\ tableLog[1].sheet # "" =>
    /\ tableLog[1].sheet = SheetName
    /\ Len(tableLog[1].row) > 1 =>
         replica.cursorRowIndex \in 0..(Len(replica.cells) - 1)
    /\ tableLog[1].col # "" /\ ~IsInt(tableLog[1].col) =>
         replica.cursorVisibleColIndex \in 0..(nVisibleCols(replica) - 1)

\* the cursor that the last moveToRow / moveToCol call moved
C25_Cursor ==
  IF tableLog[1].op = "moveToRow" THEN replica.cursorRowIndex
  ELSE replica.cursorVisibleColIndex

\* C25.  With replay_movement enabled, a moveToRow or moveToCol call whose
\* target resolves ends with the cursor on the target and the result True.
C25_MovementReachesTarget ==
  tableLog # <<>> /\ tablePos # NoIndex =>
    /\ tablePc = "True"
    /\ C25_Cursor = tablePos

\* C25, the steps: a call that ends leaves the cursor where it was or one
\* step nearer to the target, never farther
C25_StepsTowardTarget ==
  tableLog # <<>> /\ tablePos # NoIndex =>
    \/ C25_Cursor = landed
    \/ /\ landed < tablePos /\ C25_Cursor = landed + 1
    \/ /\ landed > tablePos /\ C25_Cursor = landed - 1

\* C29.  On a sheet whose visible columns have pairwise-distinct names, a
\* command that mentions cursorCol is logged with the column's name, or with
\* its index among the visible columns when the name is empty, and moveToCol
\* on that col field puts the cursor on the same column again.
C29_ColFieldFindsColumn ==
  landed # 0 =>
    /\ live.cursorVisibleColIndex \in 0..(nVisibleCols(live) - 1)
    /\ cursorCol(live) = marked[landed]

\* C29 for the columns whose name is not a numeral
C29_NonNumeralFindsColumn ==
  landed # 0 /\ ~IsInt(live.columns[marked[landed]].name) =>
    /\ live.cursorVisibleColIndex \in 0..(nVisibleCols(live) - 1)
    /\ cursorCol(live) = marked[landed]

====
